---------------------------- MODULE Spec2Model ----------------------------
(***************************************************************************)
(* The authoritative tick server, the two transport channels and the       *)
(* predicting client of the tile game, as one state machine.               *)
(*                                                                         *)
(* Conventions.  An Option<T> is a sequence of length at most one: None is *)
(* << >> and Some(x) is <<x>>.  A TilePosition is the pair <<x, y>>.  A    *)
(* HashMap is a function whose DOMAIN is its key set.  Times (f64 seconds  *)
(* in the source) are integers in units of 2^-24 / 5 seconds, the largest  *)
(* unit in which TICK_RATE (the f32 0.6 widened to f64) and the duration   *)
(* literals 3.0, 2.4, 1.2 and 0.6 are all whole numbers.                   *)
(***************************************************************************)
EXTENDS Integers, Sequences, FiniteSets, TLC

(***************************************************************************)
(* Bounds of the model.                                                    *)
(***************************************************************************)
Clients == {1, 2}
MaxTick == 8
MaxQueue == 2
MaxJoins == 2
MaxEvents == 5
MaxNetTick == 2
MaxKeys == 1
MaxNetEvents == 2
PressedKeys == {"W", "D"}

(***************************************************************************)
(* Program constants.                                                      *)
(***************************************************************************)
TICK_RATE == 50331650
VIEW_DISTANCE == 5
ChopTreeDuration == 251658240
AttackDuration == 201326592
UseItemDuration == 50331648
InteractDuration == 100663296
InventorySlots == 28
MaxLevel == 99

None == << >>
Some(x) == <<x>>

Abs(n) == IF n < 0 THEN 0 - n ELSE n

Max(S) == CHOOSE m \in S : \A n \in S : n <= m

RECURSIVE SetToSeqs(_)
\* Every order in which the elements of a finite set can be iterated.
SetToSeqs(S) ==
  IF S = {} THEN { << >> }
  ELSE UNION { { <<x>> \o s : s \in SetToSeqs(S \ {x}) } : x \in S }

(***************************************************************************)
(* shared: tiles, actions, items, trees, skills, inventory                 *)
(***************************************************************************)
distance_to(a, b) == Abs(a[1] - b[1]) + Abs(a[2] - b[2])

Move(path) == [kind |-> "Move", path |-> path, arg |-> 0]
ChopTree(tree_entity_id) == [kind |-> "ChopTree", path |-> << >>, arg |-> tree_entity_id]
Attack(target) == [kind |-> "Attack", path |-> << >>, arg |-> target]
UseItem(item_id) == [kind |-> "UseItem", path |-> << >>, arg |-> item_id]
Interact(entity_id) == [kind |-> "Interact", path |-> << >>, arg |-> entity_id]

Axes == <<"SteelAxe", "IronAxe", "BronzeAxe">>

Stackable(item_type) == item_type \in {"Logs", "OakLogs", "WillowLogs", "Shrimp", "Salmon"}

TreeDefinition(tree_type) ==
  CASE tree_type = "Normal" ->
         [level_required |-> 1, logs_given |-> "Logs", experience |-> 25,
          respawn_time |-> 419430400]
    [] tree_type = "Oak" ->
         [level_required |-> 15, logs_given |-> "OakLogs", experience |-> 37,
          respawn_time |-> 671088640]
    [] tree_type = "Willow" ->
         [level_required |-> 30, logs_given |-> "WillowLogs", experience |-> 67,
          respawn_time |-> 838860800]

TreeNew(tree_type) == [tree_type |-> tree_type, is_chopped |-> FALSE, respawn_timer |-> 0]

\* floor(level + 300 * 2^(level / 7)) / 4 in f32 arithmetic, for level = 2 .. 99.
LevelIncrement ==
  << 91, 101, 112, 124, 137, 151, 167, 185, 204, 225, 249, 274, 303, 334, 369,
     408, 450, 496, 548, 605, 667, 737, 813, 897, 990, 1093, 1207, 1332, 1470,
     1622, 1791, 1977, 2182, 2408, 2658, 2934, 3239, 3576, 3947, 4357, 4810,
     5310, 5862, 6471, 7144, 7886, 8706, 9612, 10611, 11715, 12933, 14278, 15763,
     17403, 19214, 21212, 23419, 25856, 28546, 31516, 34795, 38415, 42413, 46826,
     51699, 57078, 63018, 69576, 76817, 84811, 93638, 103383, 114142, 126022,
     139138, 153619, 169607, 187260, 206750, 228268, 252027, 278258, 307221,
     339197, 374502, 413482, 456519, 504036, 556498, 614422, 678375, 748985,
     826944, 913018, 1008052, 1112977, 1228824, 1356730 >>

\* u32 arithmetic. A u32 is held as the 32-bit integer with the same bits, so
\* the values from 2^31 on appear as negative numbers and the values below
\* 2^31 as themselves. Hi and Lo are the two 16-bit halves.
U16 == 65536
Hi(v) == (v \div U16) % U16
Lo(v) == v % U16
FromHalves(hi, lo) == IF hi >= U16 \div 2 THEN (hi - U16) * U16 + lo ELSE hi * U16 + lo

\* a + b on u32: the wrapped sum and whether it overflowed (a panic in a
\* build with overflow checks, the wrapped sum otherwise).
AddU32(a, b) ==
  LET lo == Lo(a) + Lo(b)
      hi == Hi(a) + Hi(b) + lo \div U16
  IN  [value |-> FromHalves(hi % U16, lo % U16), overflow |-> hi >= U16]

\* a <= b on u32.
LeU32(a, b) == IF (a < 0) = (b < 0) THEN a <= b ELSE b < 0

RECURSIVE SumIncrement(_, _)
\* LevelIncrement[lo] + ... + LevelIncrement[hi], added up by halves.
SumIncrement(lo, hi) ==
  IF lo > hi THEN 0
  ELSE IF lo = hi THEN LevelIncrement[lo]
  ELSE SumIncrement(lo, (lo + hi) \div 2) + SumIncrement((lo + hi) \div 2 + 1, hi)

\* The while loop of calculate_level, entered with xp_needed <= xp: the
\* level at the first iteration that leaves the loop, either by the break at
\* level >= 99 or because xp_needed, with that iteration's increment added,
\* is greater than xp.
LevelLoop(level, xp_needed, xp) ==
  LET Leaves(l2) == \/ l2 >= MaxLevel
                    \/ ~LeU32(xp_needed + SumIncrement(level, l2 - 1), xp)
  IN  CHOOSE l2 \in level + 1 .. MaxLevel :
        Leaves(l2) /\ \A earlier \in level + 1 .. l2 - 1 : ~Leaves(earlier)

calculate_level(xp) ==
  LET level == LevelLoop(1, 0, xp)
      sub == IF level >= 1 THEN level - 1 ELSE 0
  IN  IF sub >= 1 THEN sub ELSE 1

SkillsNew ==
  [Woodcutting |-> [level |-> 1, experience |-> 0],
   Fishing |-> [level |-> 1, experience |-> 0],
   Mining |-> [level |-> 1, experience |-> 0],
   Combat |-> [level |-> 1, experience |-> 0]]

\* A variant of add_experience that stores the computed level whether or not
\* it is greater than the level held.
add_experience_stores_level(skills, xp) ==
  LET experience == AddU32(skills.Woodcutting.experience, xp).value
      new_level == calculate_level(experience)
  IN  [skills |-> [skills EXCEPT !.Woodcutting =
                     [level |-> new_level, experience |-> experience]],
       leveled_up |-> new_level > skills.Woodcutting.level]

\* The skills after add_experience(Woodcutting, xp); leveled_up says what it
\* returns. experience += xp wraps here; where it overflows, a build with
\* overflow checks panics instead (see AddU32).
add_experience(skills, xp) ==
  LET experience == AddU32(skills.Woodcutting.experience, xp).value
      new_level == calculate_level(experience)
      leveled_up == new_level > skills.Woodcutting.level
  IN  [skills |-> [skills EXCEPT !.Woodcutting =
                     [level |-> IF leveled_up THEN new_level ELSE @.level,
                      experience |-> experience]],
       leveled_up |-> leveled_up]

InventoryNew == [i \in 1 .. InventorySlots |-> None]

count_item(slots, item_type) ==
  LET RECURSIVE Sum(_)
      Sum(i) == IF i = 0 THEN 0
                ELSE Sum(i - 1) + (IF slots[i] # None /\ slots[i][1].item_type = item_type
                                   THEN slots[i][1].quantity ELSE 0)
  IN  Sum(Len(slots))

has_any_axe(slots) ==
  \E k \in 1 .. Len(Axes) : count_item(slots, Axes[k]) >= 1

\* The slots after add_item(item_type, quantity); ok says what it returns.
add_item(slots, item_type, quantity) ==
  LET same == {i \in 1 .. Len(slots) : slots[i] # None /\ slots[i][1].item_type = item_type}
      free == {i \in 1 .. Len(slots) : slots[i] = None}
      Min(S) == CHOOSE m \in S : \A n \in S : m <= n
  IN  IF Stackable(item_type) /\ same # {}
      THEN [slots |-> [slots EXCEPT ![Min(same)] =
                         <<[item_type |-> item_type, quantity |-> @[1].quantity + quantity]>>],
            ok |-> TRUE]
      ELSE IF free # {}
      THEN [slots |-> [slots EXCEPT ![Min(free)] =
                         <<[item_type |-> item_type, quantity |-> quantity]>>],
            ok |-> TRUE]
      ELSE [slots |-> slots, ok |-> FALSE]

(***************************************************************************)
(* server: world set-up                                                    *)
(***************************************************************************)
BoundaryWalls ==
  { <<x, 5>> : x \in -5 .. 5 } \cup { <<x, -5>> : x \in -5 .. 5 } \cup
  { <<5, y>> : y \in -5 .. 5 } \cup { <<-5, y>> : y \in -5 .. 5 }

tree_positions ==
  << [pos |-> <<-3, -3>>, tree_type |-> "Normal"],
     [pos |-> <<-2, -3>>, tree_type |-> "Normal"],
     [pos |-> <<3, 3>>, tree_type |-> "Oak"],
     [pos |-> <<2, 3>>, tree_type |-> "Oak"],
     [pos |-> <<-3, 3>>, tree_type |-> "Willow"],
     [pos |-> <<0, -4>>, tree_type |-> "Normal"],
     [pos |-> <<1, -4>>, tree_type |-> "Oak"] >>

ActionQueueDefault == [actions |-> << >>, current_action |-> None]

TreeEntity(pos, tree_type) ==
  [tile_pos |-> pos, player_id |-> None, action_queue |-> ActionQueueDefault,
   inventory |-> None, skills |-> None, tree |-> Some(TreeNew(tree_type))]

PlayerEntity(player_id) ==
  [tile_pos |-> <<0, 0>>, player_id |-> Some(player_id),
   action_queue |-> ActionQueueDefault,
   inventory |-> Some(add_item(InventoryNew, "BronzeAxe", 1).slots),
   skills |-> Some(SkillsNew), tree |-> None]

\* The entities map after spawn_trees: ids 1 .. 7 in the order of the list.
spawn_trees ==
  [id \in 1 .. Len(tree_positions) |->
     TreeEntity(tree_positions[id].pos, tree_positions[id].tree_type)]

ServerObstacles == BoundaryWalls \cup { tree_positions[i].pos : i \in 1 .. Len(tree_positions) }


(***************************************************************************)
(* State.                                                                  *)
(*   server:    players, entities, next_entity_id, server_tick,            *)
(*              last_states, client_views (ServerState, InterestManager)   *)
(*   transport: connected (the clients the transport reports), c2s (a      *)
(*              client's reliable-ordered messages to the server),         *)
(*              reliable, unreliable (the two channels to each client)     *)
(*   outbox:    sent_reliable, sent_unreliable: what the server handed to  *)
(*              the transport for each client in its latest step           *)
(*   client:    client (each client's ClientState)                         *)
(*   history:   ev (the latest step), events (how many client events the   *)
(*              server alone has been fed), membership, newest,            *)
(*              dropped_tick, chopped_at (the tick in which each tree was  *)
(*              last marked chopped, where a specification records it)     *)
(*   clock:     now (the client's Time::elapsed, in units of 0.0001 s)     *)
(***************************************************************************)
VARIABLES players, entities, next_entity_id, server_tick, last_states,
          client_views, connected, c2s, reliable, unreliable,
          sent_reliable, sent_unreliable, client, ev, events, membership,
          newest, dropped_tick, chopped_at, now

server_vars == <<players, entities, next_entity_id, server_tick, last_states, client_views>>
outbox_vars == <<sent_reliable, sent_unreliable>>
net_vars == <<c2s, reliable, unreliable>>
history_vars == <<membership, newest, dropped_tick, chopped_at, now>>
vars == <<players, entities, next_entity_id, server_tick, last_states,
          client_views, connected, c2s, reliable, unreliable,
          sent_reliable, sent_unreliable, client, ev, events, membership,
          newest, dropped_tick, chopped_at, now>>

NoMessages == [c \in Clients |-> << >>]

\* send_message: the message joins the client's reliable-ordered stream.
send_message(out, player_id, msg) ==
  IF player_id \in connected THEN [out EXCEPT ![player_id] = Append(@, msg)] ELSE out

\* broadcast_message: the message joins the stream of every connected client.
broadcast_message(out, msg) ==
  [c \in Clients |-> IF c \in connected THEN Append(out[c], msg) ELSE out[c]]

RECURSIVE send_all(_, _, _)
send_all(out, player_id, msgs) ==
  IF msgs = << >> THEN out
  ELSE send_all(send_message(out, player_id, Head(msgs)), player_id, Tail(msgs))

(***************************************************************************)
(* server: interest manager                                                *)
(***************************************************************************)
\* A variant of update_view that sees only the tiles nearer than VIEW_DISTANCE.
update_view_nearer(views, player_id, center, ents) ==
  LET view == IF player_id \in DOMAIN views THEN views[player_id] ELSE {}
      now_visible == {id \in DOMAIN ents : distance_to(center, ents[id].tile_pos) < VIEW_DISTANCE}
  IN  [entered |-> now_visible \ view,
       left |-> view \ now_visible,
       views |-> [q \in DOMAIN views \cup {player_id} |->
                    IF q = player_id THEN now_visible ELSE views[q]]]

\* A variant of update_view that reports no entity as having left.
update_view_no_left(views, player_id, center, ents) ==
  LET view == IF player_id \in DOMAIN views THEN views[player_id] ELSE {}
      now_visible == {id \in DOMAIN ents : distance_to(center, ents[id].tile_pos) <= VIEW_DISTANCE}
  IN  [entered |-> now_visible \ view,
       left |-> {},
       views |-> [q \in DOMAIN views \cup {player_id} |->
                    IF q = player_id THEN now_visible ELSE views[q]]]

\* InterestManager::update_view on the player's stored view (empty when absent).
update_view(views, player_id, center, ents) ==
  LET view == IF player_id \in DOMAIN views THEN views[player_id] ELSE {}
      now_visible == {id \in DOMAIN ents : distance_to(center, ents[id].tile_pos) <= VIEW_DISTANCE}
  IN  [entered |-> now_visible \ view,
       left |-> view \ now_visible,
       views |-> [q \in DOMAIN views \cup {player_id} |->
                    IF q = player_id THEN now_visible ELSE views[q]]]

EntitySnapshot(id, e) ==
  [entity_id |-> id, tile_position |-> e.tile_pos, player_id |-> e.player_id, tree |-> e.tree]

\* A variant of update_interest_for_player that announces entities only when
\* the view was empty before, as on Join.
update_interest_first_view_only(player_id, plrs, ents, views, out) ==
  IF player_id \notin DOMAIN plrs \/ plrs[player_id].entity_id \notin DOMAIN ents
  THEN [views |-> views, out |-> out]
  ELSE
    LET u == update_view(views, player_id, ents[plrs[player_id].entity_id].tile_pos, ents)
        out1 == IF u.entered # {} /\ views[player_id] = {}
                THEN send_message(out, player_id,
                       [type |-> "EntitiesEntered",
                        entities |-> {EntitySnapshot(id, ents[id]) : id \in u.entered}])
                ELSE out
        out2 == IF u.left # {}
                THEN send_message(out1, player_id,
                       [type |-> "EntitiesLeft", entity_ids |-> u.left])
                ELSE out1
    IN  [views |-> u.views, out |-> out2]

\* The views and the outbox after update_interest_for_player.
update_interest_for_player(player_id, plrs, ents, views, out) ==
  IF player_id \notin DOMAIN plrs \/ plrs[player_id].entity_id \notin DOMAIN ents
  THEN [views |-> views, out |-> out]
  ELSE
    LET u == update_view(views, player_id, ents[plrs[player_id].entity_id].tile_pos, ents)
        out1 == IF u.entered # {}
                THEN send_message(out, player_id,
                       [type |-> "EntitiesEntered",
                        entities |-> {EntitySnapshot(id, ents[id]) : id \in u.entered}])
                ELSE out
        out2 == IF u.left # {}
                THEN send_message(out1, player_id,
                       [type |-> "EntitiesLeft", entity_ids |-> u.left])
                ELSE out1
    IN  [views |-> u.views, out |-> out2]

RECURSIVE update_interest_all(_, _, _, _, _)
\* The loop of process_server_tick over the players (each touches its own view and stream).
update_interest_all(todo, plrs, ents, views, out) ==
  IF todo = {} THEN [views |-> views, out |-> out]
  ELSE LET p == CHOOSE q \in todo : TRUE
           r == update_interest_for_player(p, plrs, ents, views, out)
       IN  update_interest_all(todo \ {p}, plrs, ents, r.views, r.out)

(***************************************************************************)
(* server: delta replication                                               *)
(***************************************************************************)
\* The entry of last_states for an entity, inserted on first sight with tick 0.
LastStateOf(states, id, e) ==
  IF id \in DOMAIN states THEN states[id] ELSE [tile_pos |-> e.tile_pos, last_sent_tick |-> 0]

\* A variant of EntityChanged that takes every entity to be changed.
EntityChangedAlways(last_state, e) == TRUE

EntityChanged(last_state, e) ==
  last_state.tile_pos # e.tile_pos \/ last_state.last_sent_tick = 0

\* The delta built for a changed entity. The server's DeltaType has no
\* last_processed_input; the field the client reads stays None.
EntityDelta(id, e, last_state) ==
  IF last_state.last_sent_tick = 0
  THEN [entity_id |-> id, delta_type |-> "FullState", tile_pos |-> e.tile_pos,
        player_id |-> e.player_id, last_processed_input |-> None]
  ELSE [entity_id |-> id, delta_type |-> "PositionOnly", tile_pos |-> e.tile_pos,
        player_id |-> None, last_processed_input |-> None]

\* A variant of DeltaReceivers that hands a delta to every player with a view.
DeltaReceiversEveryView(views, id) == DOMAIN views

DeltaReceivers(views, id) == {p \in DOMAIN views : id \in views[p]}

\* send_delta_updates: the new last_states and each client's DeltaUpdate (if any).
send_delta_updates(ents, states, views, tick) ==
  LET changed == {id \in DOMAIN ents : EntityChanged(LastStateOf(states, id, ents[id]), ents[id])}
      deltas(p) == {EntityDelta(id, ents[id], LastStateOf(states, id, ents[id])) :
                      id \in {i \in changed : p \in DeltaReceivers(views, i)}}
  IN  [last_states |-> [id \in DOMAIN states \cup DOMAIN ents |->
                          IF id \in changed
                          THEN [tile_pos |-> ents[id].tile_pos, last_sent_tick |-> tick]
                          ELSE LastStateOf(states, id, IF id \in DOMAIN ents THEN ents[id]
                                                       ELSE [tile_pos |-> <<0, 0>>])],
       out |-> [c \in Clients |->
                  IF c \in connected /\ deltas(c) # {}
                  THEN << [type |-> "DeltaUpdate", tick |-> tick, deltas |-> deltas(c)] >>
                  ELSE << >>]]


(***************************************************************************)
(* server: action queue                                                    *)
(***************************************************************************)
\* ActionDuration with the Attack arm carrying ChopTree's literal.
ActionDurationAttackSlip(action) ==
  CASE action.kind = "Move" -> TICK_RATE
    [] action.kind = "ChopTree" -> ChopTreeDuration
    [] action.kind = "Attack" -> ChopTreeDuration
    [] action.kind = "UseItem" -> UseItemDuration
    [] action.kind = "Interact" -> InteractDuration

\* The duration process_action_queue gives an action it starts.
ActionDuration(action) ==
  CASE action.kind = "Move" -> TICK_RATE
    [] action.kind = "ChopTree" -> ChopTreeDuration
    [] action.kind = "Attack" -> AttackDuration
    [] action.kind = "UseItem" -> UseItemDuration
    [] action.kind = "Interact" -> InteractDuration

\* AdvanceAction reading the path before the index is advanced.
AdvanceActionStale(queue, tile_pos, current_time) ==
  LET aip == queue.current_action[1]
      index == aip.current_path_index + 1
  IN  IF current_time >= aip.completion_time /\ aip.action.kind = "Move"
      THEN IF index < Len(aip.action.path)
           THEN [queue |-> [queue EXCEPT !.current_action =
                              Some([aip EXCEPT !.current_path_index = index,
                                               !.completion_time = current_time + TICK_RATE])],
                 tile_pos |-> aip.action.path[index]]
           ELSE [queue |-> [queue EXCEPT !.current_action = None], tile_pos |-> tile_pos]
      ELSE [queue |-> queue, tile_pos |-> tile_pos]

\* A variant of AdvanceAction that re-arms a Move whose last step is done
\* instead of clearing it.
AdvanceActionNeverEnds(queue, tile_pos, current_time) ==
  LET aip == queue.current_action[1]
      index == aip.current_path_index + 1
  IN  IF current_time >= aip.completion_time /\ aip.action.kind = "Move"
      THEN IF index < Len(aip.action.path)
           THEN [queue |-> [queue EXCEPT !.current_action =
                              Some([aip EXCEPT !.current_path_index = index,
                                               !.completion_time = current_time + TICK_RATE])],
                 tile_pos |-> aip.action.path[index + 1]]
           ELSE [queue |-> [queue EXCEPT !.current_action =
                              Some([aip EXCEPT !.completion_time = current_time + TICK_RATE])],
                 tile_pos |-> tile_pos]
      ELSE [queue |-> queue, tile_pos |-> tile_pos]

\* The branch of process_action_queue for an action in progress: only a Move
\* whose step is due advances; everything else is left as it is.
AdvanceAction(queue, tile_pos, current_time) ==
  LET aip == queue.current_action[1]
      index == aip.current_path_index + 1
  IN  IF current_time >= aip.completion_time /\ aip.action.kind = "Move"
      THEN IF index < Len(aip.action.path)
           THEN [queue |-> [queue EXCEPT !.current_action =
                              Some([aip EXCEPT !.current_path_index = index,
                                               !.completion_time = current_time + TICK_RATE])],
                 tile_pos |-> aip.action.path[index + 1]]
           ELSE [queue |-> [queue EXCEPT !.current_action = None], tile_pos |-> tile_pos]
      ELSE [queue |-> queue, tile_pos |-> tile_pos]

\* StartAction popping the back of the queue instead of the front.
StartActionBack(queue, tile_pos, current_time) ==
  LET n == Len(queue.actions)
      action == queue.actions[n]
  IN  [queue |-> [actions |-> SubSeq(queue.actions, 1, n - 1),
                  current_action |->
                    Some([action |-> action, started_at |-> current_time,
                          completion_time |-> current_time + ActionDuration(action),
                          current_path_index |-> 0])],
       tile_pos |-> IF action.kind = "Move" /\ action.path # << >>
                    THEN action.path[1] ELSE tile_pos]

\* The branch of process_action_queue for an idle entity: pop the front and start it.
StartAction(queue, tile_pos, current_time) ==
  LET action == Head(queue.actions)
  IN  [queue |-> [actions |-> Tail(queue.actions),
                  current_action |->
                    Some([action |-> action, started_at |-> current_time,
                          completion_time |-> current_time + ActionDuration(action),
                          current_path_index |-> 0])],
       tile_pos |-> IF action.kind = "Move" /\ action.path # << >>
                    THEN action.path[1] ELSE tile_pos]

process_action_queue(queue, tile_pos, current_time) ==
  IF queue.current_action # None THEN AdvanceAction(queue, tile_pos, current_time)
  ELSE IF queue.actions # << >> THEN StartAction(queue, tile_pos, current_time)
  ELSE [queue |-> queue, tile_pos |-> tile_pos]

\* CancelQueue clearing the pending actions only.
CancelQueueKeepCurrent(queue) == [queue EXCEPT !.actions = << >>]

\* CancelAction on a queue: the in-progress slot and the pending actions are dropped.
CancelQueue(queue) == [actions |-> << >>, current_action |-> None]

\* QueueAction on a queue: push_back.
PushAction(queue, action) == [queue EXCEPT !.actions = Append(@, action)]

(***************************************************************************)
(* server: woodcutting                                                     *)
(***************************************************************************)
\* validate_woodcutting_action: ok, and the typed error it sends (if any).
validate_woodcutting_action(player_entity, tree_entity) ==
  IF tree_entity.tree = None \/ tree_entity.tree[1].is_chopped
  THEN [ok |-> FALSE, msgs |-> << >>]
  ELSE
    LET tree_def == TreeDefinition(tree_entity.tree[1].tree_type)
        wc_level == player_entity.skills[1].Woodcutting.level
    IN  IF player_entity.skills # None /\ wc_level < tree_def.level_required
        THEN [ok |-> FALSE,
              msgs |-> << [type |-> "NotEnoughLevel", skill |-> "Woodcutting",
                           required |-> tree_def.level_required, current |-> wc_level] >>]
        ELSE IF player_entity.inventory # None /\ ~has_any_axe(player_entity.inventory[1])
        THEN [ok |-> FALSE, msgs |-> << [type |-> "NoAxeEquipped"] >>]
        ELSE [ok |-> TRUE, msgs |-> << >>]

\* The item grant of handle_woodcutting_completion.
GrantLogs(e, tree_def) ==
  IF e.inventory = None THEN [entity |-> e, msgs |-> << >>]
  ELSE LET r == add_item(e.inventory[1], tree_def.logs_given, 1)
       IN  IF r.ok
           THEN [entity |-> [e EXCEPT !.inventory = Some(r.slots)],
                 msgs |-> << [type |-> "ItemAdded", item_type |-> tree_def.logs_given,
                              quantity |-> 1],
                             [type |-> "InventoryUpdate", inventory |-> r.slots] >>]
           ELSE [entity |-> e, msgs |-> << >>]

\* The experience grant of handle_woodcutting_completion.
GrantExperience(e, tree_def) ==
  IF e.skills = None THEN [entity |-> e, msgs |-> << >>]
  ELSE LET r == add_experience(e.skills[1], tree_def.experience)
           wc == r.skills.Woodcutting
       IN  [entity |-> [e EXCEPT !.skills = Some(r.skills)],
            msgs |-> << [type |-> "ExperienceGained", skill |-> "Woodcutting",
                         amount |-> tree_def.experience],
                        [type |-> "SkillUpdate", skill |-> "Woodcutting",
                         level |-> wc.level, experience |-> wc.experience] >>
                     \o (IF r.leveled_up
                         THEN << [type |-> "LevelUp", skill |-> "Woodcutting",
                                  new_level |-> wc.level] >>
                         ELSE << >>)]

\* A variant of handle_woodcutting_completion that grants no experience when
\* the log could not be added to the inventory.
handle_woodcutting_completion_no_room_no_xp(player_entity_id, tree_entity_id, ents, out) ==
  IF tree_entity_id \notin DOMAIN ents \/ ents[tree_entity_id].tree = None
  THEN [entities |-> ents, out |-> out]
  ELSE
    LET tree_def == TreeDefinition(ents[tree_entity_id].tree[1].tree_type)
        ents1 == [ents EXCEPT ![tree_entity_id].tree =
                    Some([@[1] EXCEPT !.is_chopped = TRUE, !.respawn_timer = 0])]
    IN  IF player_entity_id \notin DOMAIN ents1 \/ ents1[player_entity_id].player_id = None
        THEN [entities |-> ents1, out |-> out]
        ELSE
          LET player_id == ents1[player_entity_id].player_id[1]
              g1 == GrantLogs(ents1[player_entity_id], tree_def)
              g2 == IF g1.msgs = << >> THEN g1 ELSE GrantExperience(g1.entity, tree_def)
              done == [g2.entity EXCEPT !.action_queue.current_action = None]
              out1 == send_all(out, player_id,
                        g1.msgs \o (IF g1.msgs = << >> THEN << >> ELSE g2.msgs) \o
                        << [type |-> "ActionCompleted", entity_id |-> player_entity_id] >>)
          IN  [entities |-> [ents1 EXCEPT ![player_entity_id] = done],
               out |-> broadcast_message(out1, [type |-> "TreeChopped",
                                                tree_entity_id |-> tree_entity_id])]

\* handle_woodcutting_completion: the entities and the outbox after it.
handle_woodcutting_completion(player_entity_id, tree_entity_id, ents, out) ==
  IF tree_entity_id \notin DOMAIN ents \/ ents[tree_entity_id].tree = None
  THEN [entities |-> ents, out |-> out]
  ELSE
    LET tree_def == TreeDefinition(ents[tree_entity_id].tree[1].tree_type)
        ents1 == [ents EXCEPT ![tree_entity_id].tree =
                    Some([@[1] EXCEPT !.is_chopped = TRUE, !.respawn_timer = 0])]
    IN  IF player_entity_id \notin DOMAIN ents1 \/ ents1[player_entity_id].player_id = None
        THEN [entities |-> ents1, out |-> out]
        ELSE
          LET player_id == ents1[player_entity_id].player_id[1]
              g1 == GrantLogs(ents1[player_entity_id], tree_def)
              g2 == GrantExperience(g1.entity, tree_def)
              done == [g2.entity EXCEPT !.action_queue.current_action = None]
              out1 == send_all(out, player_id,
                        g1.msgs \o g2.msgs \o
                        << [type |-> "ActionCompleted", entity_id |-> player_entity_id] >>)
          IN  [entities |-> [ents1 EXCEPT ![player_entity_id] = done],
               out |-> broadcast_message(out1, [type |-> "TreeChopped",
                                                tree_entity_id |-> tree_entity_id])]

RECURSIVE woodcutting_all(_, _, _)
\* The loop of process_server_tick over woodcutting_completions, in the given order.
woodcutting_all(order, ents, out) ==
  IF order = << >> THEN [entities |-> ents, out |-> out]
  ELSE LET r == handle_woodcutting_completion(Head(order), ents[Head(order)].action_queue
                                                .current_action[1].action.arg, ents, out)
       IN  woodcutting_all(Tail(order), r.entities, r.out)


(***************************************************************************)
(* server: the tick                                                        *)
(***************************************************************************)
InProgress(e) == e.action_queue.current_action # None

CurrentAction(e) == e.action_queue.current_action[1]

\* Entities whose ChopTree is due at current_time (collected before the queue is stepped).
WoodcuttingCompletions(ents, current_time) ==
  {id \in DOMAIN ents :
     /\ InProgress(ents[id])
     /\ CurrentAction(ents[id]).action.kind = "ChopTree"
     /\ current_time >= CurrentAction(ents[id]).completion_time}

\* Every entity's queue stepped once.
StepQueues(ents, current_time) ==
  [id \in DOMAIN ents |->
     LET r == process_action_queue(ents[id].action_queue, ents[id].tile_pos, current_time)
     IN  [ents[id] EXCEPT !.action_queue = r.queue, !.tile_pos = r.tile_pos]]

\* Entities whose action (other than ChopTree) is due after the queue was stepped.
CompletedActions(ents, current_time) ==
  {id \in DOMAIN ents :
     /\ InProgress(ents[id])
     /\ current_time >= CurrentAction(ents[id]).completion_time
     /\ CurrentAction(ents[id]).action.kind # "ChopTree"}

RECURSIVE complete_all(_, _, _)
\* The loop over completed_actions, in the given order.
complete_all(order, ents, out) ==
  IF order = << >> THEN [entities |-> ents, out |-> out]
  ELSE LET id == Head(order)
           out1 == IF ents[id].player_id # None
                   THEN send_message(out, ents[id].player_id[1],
                                     [type |-> "ActionCompleted", entity_id |-> id])
                   ELSE out
       IN  complete_all(Tail(order),
                        [ents EXCEPT ![id].action_queue.current_action = None], out1)

\* Chopped trees whose timer reaches the respawn time with this tick.
RespawnedTrees(ents) ==
  {id \in DOMAIN ents :
     /\ ents[id].tree # None
     /\ ents[id].tree[1].is_chopped
     /\ ents[id].tree[1].respawn_timer + TICK_RATE
          >= TreeDefinition(ents[id].tree[1].tree_type).respawn_time}

\* The respawn timers advanced by one tick.
AdvanceRespawn(ents) ==
  [id \in DOMAIN ents |->
     IF ents[id].tree # None /\ ents[id].tree[1].is_chopped
     THEN IF id \in RespawnedTrees(ents)
          THEN [ents[id] EXCEPT !.tree = Some([@[1] EXCEPT !.is_chopped = FALSE,
                                                           !.respawn_timer = 0])]
          ELSE [ents[id] EXCEPT !.tree = Some([@[1] EXCEPT !.respawn_timer = @ + TICK_RATE])]
     ELSE ents[id]]

RECURSIVE broadcast_respawned(_, _)
broadcast_respawned(order, out) ==
  IF order = << >> THEN out
  ELSE broadcast_respawned(Tail(order),
         broadcast_message(out, [type |-> "TreeRespawned", tree_entity_id |-> Head(order)]))

\* The stages of process_server_tick, last first; each is handed the result of
\* the stage before it.
TickResult(ents, i, d) ==
  [entities |-> ents, client_views |-> i.views, last_states |-> d.last_states,
   reliable |-> i.out, unreliable |-> d.out]

\* Delta replication, after the interest update i.
TickFromDeltas(tick, ents, i) ==
  TickResult(ents, i, send_delta_updates(ents, last_states, i.views, tick))

\* The interest update of every player, after the respawns.
TickFromInterest(tick, ents, out) ==
  TickFromDeltas(tick, ents,
    update_interest_all(DOMAIN players, players, ents, client_views, out))

\* The respawn timers, after the completions c.
TickFromRespawn(tick, order_r, c) ==
  TickFromInterest(tick, AdvanceRespawn(c.entities), broadcast_respawned(order_r, c.out))

\* The completed actions, after the woodcutting completions w.
TickFromCompletions(tick, order_c, order_r, w) ==
  TickFromRespawn(tick, order_r, complete_all(order_c, w.entities, w.out))

\* process_server_tick for tick number `tick`; the three orders are the orders in
\* which the HashMap hands out the woodcutting completions, the completed actions
\* and the respawned trees.
process_server_tick(tick, order_w, order_c, order_r) ==
  TickFromCompletions(tick, order_c, order_r,
    woodcutting_all(order_w, StepQueues(entities, tick * TICK_RATE), NoMessages))

\* The tree states after the woodcutting completions do not depend on their order.
TreesAfterWoodcutting(current_time) ==
  woodcutting_all(CHOOSE o \in SetToSeqs(WoodcuttingCompletions(entities, current_time)) : TRUE,
                  StepQueues(entities, current_time), NoMessages).entities

\* server_update_system when the accumulator holds a tick: server_tick += 1 and
\* process_server_tick; ticks are run up to tick number `limit`.
TickTo(limit) ==
  /\ server_tick < limit
  /\ LET tick == server_tick + 1
         current_time == tick * TICK_RATE
     IN  \E order_w \in SetToSeqs(WoodcuttingCompletions(entities, current_time)),
            order_c \in SetToSeqs(CompletedActions(StepQueues(entities, current_time),
                                                   current_time)),
            order_r \in SetToSeqs(RespawnedTrees(TreesAfterWoodcutting(current_time))) :
           \E r \in {process_server_tick(tick, order_w, order_c, order_r)} :
               /\ server_tick' = tick
               /\ entities' = r.entities
               /\ client_views' = r.client_views
               /\ last_states' = r.last_states
               /\ sent_reliable' = r.reliable
               /\ sent_unreliable' = r.unreliable
               /\ ev' = [op |-> "Tick", client |-> 0, val |-> tick]
               /\ UNCHANGED <<players, next_entity_id, connected>>

Tick == TickTo(MaxTick)

(***************************************************************************)
(* server: client messages and disconnections                              *)
(***************************************************************************)
\* The action in progress (if any) followed by the queued actions.
PendingActions(queue) ==
  (IF queue.current_action # None THEN <<queue.current_action[1].action>> ELSE << >>)
    \o queue.actions

\* The transport accepts a connection.
Connect(p) ==
  /\ p \notin connected
  /\ p \notin DOMAIN players
  /\ connected' = connected \cup {p}
  /\ sent_reliable' = NoMessages
  /\ sent_unreliable' = NoMessages
  /\ ev' = [op |-> "Connect", client |-> p, val |-> 0]
  /\ UNCHANGED server_vars

\* A variant of the Join messages in which Welcome is sent after the others.
JoinMessagesWelcomeLast(player_id, e) ==
  << [type |-> "InventoryUpdate", inventory |-> e.inventory[1]],
     [type |-> "SkillUpdate", skill |-> "Woodcutting", level |-> 1, experience |-> 0],
     [type |-> "SkillUpdate", skill |-> "Fishing", level |-> 1, experience |-> 0],
     [type |-> "SkillUpdate", skill |-> "Mining", level |-> 1, experience |-> 0],
     [type |-> "SkillUpdate", skill |-> "Combat", level |-> 1, experience |-> 0],
     [type |-> "ObstacleData", obstacles |-> ServerObstacles],
     [type |-> "Welcome", player_id |-> player_id, spawn_position |-> e.tile_pos] >>

\* The messages of the Join handler before the interest update: Welcome, the
\* inventory, one SkillUpdate per skill (in the order the skills map yields
\* them) and the pathfinder's obstacles.
JoinMessages(player_id, e) ==
  << [type |-> "Welcome", player_id |-> player_id, spawn_position |-> e.tile_pos],
     [type |-> "InventoryUpdate", inventory |-> e.inventory[1]],
     [type |-> "SkillUpdate", skill |-> "Woodcutting", level |-> 1, experience |-> 0],
     [type |-> "SkillUpdate", skill |-> "Fishing", level |-> 1, experience |-> 0],
     [type |-> "SkillUpdate", skill |-> "Mining", level |-> 1, experience |-> 0],
     [type |-> "SkillUpdate", skill |-> "Combat", level |-> 1, experience |-> 0],
     [type |-> "ObstacleData", obstacles |-> ServerObstacles] >>

\* A variant of the Join handler that hands out again the id of a removed
\* player entity when there is one.
HandleJoinFreedId(p) ==
  /\ p \in connected
  /\ next_entity_id <= Len(tree_positions) + MaxJoins
  /\ LET freed == {id \in Len(tree_positions) + 1 .. next_entity_id - 1 :
                     id \notin DOMAIN entities}
         entity_id == IF freed # {} THEN CHOOSE id \in freed : TRUE ELSE next_entity_id
         e == PlayerEntity(p)
         ents == [id \in DOMAIN entities \cup {entity_id} |->
                    IF id = entity_id THEN e ELSE entities[id]]
         plrs == [q \in DOMAIN players \cup {p} |->
                    IF q = p THEN [entity_id |-> entity_id] ELSE players[q]]
         views == [q \in DOMAIN client_views \cup {p} |->
                     IF q = p THEN {} ELSE client_views[q]]
         i == update_interest_for_player(p, plrs, ents, views,
                send_all(NoMessages, p, JoinMessages(p, e)))
     IN  /\ entities' = ents
         /\ players' = plrs
         /\ next_entity_id' = IF freed # {} THEN next_entity_id ELSE next_entity_id + 1
         /\ client_views' = i.views
         /\ sent_reliable' = i.out
         /\ sent_unreliable' = NoMessages
         /\ ev' = [op |-> "Join", client |-> p, val |-> entity_id]
         /\ UNCHANGED <<server_tick, last_states, connected>>

\* handle_client_message, ClientMessage::Join.
HandleJoin(p) ==
  /\ p \in connected
  /\ next_entity_id <= Len(tree_positions) + MaxJoins
  /\ LET entity_id == next_entity_id
         e == PlayerEntity(p)
         ents == [id \in DOMAIN entities \cup {entity_id} |->
                    IF id = entity_id THEN e ELSE entities[id]]
         plrs == [q \in DOMAIN players \cup {p} |->
                    IF q = p THEN [entity_id |-> entity_id] ELSE players[q]]
         views == [q \in DOMAIN client_views \cup {p} |->
                     IF q = p THEN {} ELSE client_views[q]]
         i == update_interest_for_player(p, plrs, ents, views,
                send_all(NoMessages, p, JoinMessages(p, e)))
     IN  /\ entities' = ents
         /\ players' = plrs
         /\ next_entity_id' = next_entity_id + 1
         /\ client_views' = i.views
         /\ sent_reliable' = i.out
         /\ sent_unreliable' = NoMessages
         /\ ev' = [op |-> "Join", client |-> p, val |-> entity_id]
         /\ UNCHANGED <<server_tick, last_states, connected>>

\* The woodcutting check of QueueAction: passes for every action but a ChopTree.
QueueValidation(p, action) ==
  IF action.kind # "ChopTree" THEN [ok |-> TRUE, msgs |-> << >>]
  ELSE IF players[p].entity_id \in DOMAIN entities /\ action.arg \in DOMAIN entities
  THEN validate_woodcutting_action(entities[players[p].entity_id], entities[action.arg])
  ELSE [ok |-> FALSE, msgs |-> << >>]

\* handle_client_message, ClientMessage::QueueAction.
HandleQueueAction(p, action) ==
  /\ p \in connected
  /\ p \in DOMAIN players /\ players[p].entity_id \in DOMAIN entities
       => Len(entities[players[p].entity_id].action_queue.actions) < MaxQueue
  /\ IF p \notin DOMAIN players
     THEN /\ sent_reliable' = NoMessages
          /\ UNCHANGED entities
     ELSE LET v == QueueValidation(p, action)
              id == players[p].entity_id
          IN  IF ~v.ok
              THEN /\ sent_reliable' = send_all(NoMessages, p, v.msgs)
                   /\ UNCHANGED entities
              ELSE IF id \in DOMAIN entities
              THEN /\ entities' = [entities EXCEPT ![id].action_queue = PushAction(@, action)]
                   /\ sent_reliable' = send_message(NoMessages, p,
                                         [type |-> "ActionQueued", action |-> action])
              ELSE /\ sent_reliable' = NoMessages
                   /\ UNCHANGED entities
  /\ sent_unreliable' = NoMessages
  /\ ev' = [op |-> "QueueAction", client |-> p, val |-> action]
  /\ UNCHANGED <<players, next_entity_id, server_tick, last_states, client_views, connected>>

\* handle_client_message, ClientMessage::CancelAction.
HandleCancelAction(p) ==
  /\ p \in connected
  /\ IF p \in DOMAIN players /\ players[p].entity_id \in DOMAIN entities
     THEN entities' = [entities EXCEPT ![players[p].entity_id].action_queue = CancelQueue(@)]
     ELSE UNCHANGED entities
  /\ sent_reliable' = NoMessages
  /\ sent_unreliable' = NoMessages
  /\ ev' = [op |-> "CancelAction", client |-> p,
            val |-> IF p \in DOMAIN players /\ players[p].entity_id \in DOMAIN entities
                    THEN PendingActions(entities[players[p].entity_id].action_queue)
                    ELSE << >>]
  /\ UNCHANGED <<players, next_entity_id, server_tick, last_states, client_views, connected>>

\* A variant of ReapPlayer that leaves the player's entity in the world.
ReapPlayerKeepEntity(p) ==
  LET id == players[p].entity_id
  IN  [players |-> [q \in DOMAIN players \ {p} |-> players[q]],
       entities |-> entities,
       client_views |-> [q \in DOMAIN client_views \ {p} |-> client_views[q]],
       last_states |-> [i \in DOMAIN last_states \ {id} |-> last_states[i]],
       left |-> [type |-> "EntitiesLeft", entity_ids |-> {id}]]

\* The server state after handle_disconnections has reaped player p.
ReapPlayer(p) ==
  LET id == players[p].entity_id
  IN  [players |-> [q \in DOMAIN players \ {p} |-> players[q]],
       entities |-> [i \in DOMAIN entities \ {id} |-> entities[i]],
       client_views |-> [q \in DOMAIN client_views \ {p} |-> client_views[q]],
       last_states |-> [i \in DOMAIN last_states \ {id} |-> last_states[i]],
       left |-> [type |-> "EntitiesLeft", entity_ids |-> {id}]]

\* The transport loses client p; the next server_update_system receives nothing
\* more from it and handle_disconnections reaps its player before any tick.
Disconnect(p) ==
  /\ p \in connected
  /\ connected' = connected \ {p}
  /\ IF p \in DOMAIN players
     THEN LET r == ReapPlayer(p)
          IN  /\ players' = r.players
              /\ entities' = r.entities
              /\ client_views' = r.client_views
              /\ last_states' = r.last_states
              /\ sent_reliable' = [c \in Clients |->
                                     IF c \in connected \ {p} THEN <<r.left>> ELSE << >>]
     ELSE /\ sent_reliable' = NoMessages
          /\ UNCHANGED <<players, entities, client_views, last_states>>
  /\ sent_unreliable' = NoMessages
  /\ ev' = [op |-> "Disconnect", client |-> p, val |-> 0]
  /\ UNCHANGED <<next_entity_id, server_tick>>

\* Client times are in units of 0.0001 s: the default interpolation_delay of
\* 0.1 s, the 1.0 s a sample is kept past the render timestamp, and the
\* 0.0001 s two timestamps must be apart for a factor to be computed.
InterpolationDelay == 1000
SampleWindow == 10000
TimestampEpsilon == 1

(***************************************************************************)
(* client: state                                                           *)
(***************************************************************************)
ClientStateDefault ==
  [my_player_id |-> None, my_entity_id |-> None, visible_entities |-> << >>,
   pending_move |-> None, obstacles |-> {}, confirmed_path |-> None,
   inventory |-> InventoryNew, skills |-> << >>, join_sent |-> FALSE,
   input_sequence_number |-> 0, pending_inputs |-> << >>,
   client_side_prediction |-> TRUE, server_reconciliation |-> TRUE,
   entity_interpolation |-> TRUE, interpolation_delay |-> InterpolationDelay]

(***************************************************************************)
(* client: handlers                                                        *)
(***************************************************************************)
\* apply_action_to_position: a Move teleports to the first tile of its path.
apply_action_to_position(action, position) ==
  IF action.kind = "Move" /\ action.path # << >> THEN action.path[1] ELSE position

RECURSIVE apply_all(_, _)
\* The re-application loop of reconcile_client_state.
apply_all(inputs, position) ==
  IF inputs = << >> THEN position
  ELSE apply_all(Tail(inputs), apply_action_to_position(Head(inputs).action, position))

\* A variant of the retain that also keeps the input the server reports.
retain_from_reported(inputs, last_processed_input) ==
  SelectSeq(inputs, LAMBDA input : input.input_sequence_number >= last_processed_input)

\* retain(|input| input.input_sequence_number > last_processed_input)
retain_unprocessed(inputs, last_processed_input) ==
  SelectSeq(inputs, LAMBDA input : input.input_sequence_number > last_processed_input)

\* reconcile_client_state
reconcile_client_state(state, entity_id, last_processed_input) ==
  LET remaining == retain_unprocessed(state.pending_inputs, last_processed_input)
      s1 == [state EXCEPT !.pending_inputs = remaining]
  IN  IF entity_id \in DOMAIN s1.visible_entities
      THEN [s1 EXCEPT !.visible_entities[entity_id].tile_position = apply_all(remaining, @)]
      ELSE s1

\* spawn_client_entity: the entity built from a snapshot.
ClientEntity(snapshot) ==
  [tile_position |-> snapshot.tile_position, player_id |-> snapshot.player_id,
   tree |-> snapshot.tree, position_buffer |-> << >>,
   server_position |-> snapshot.tile_position, interpolated_position |-> None]

\* spawn_client_entity
spawn_client_entity(snapshot, state) ==
  LET is_local == snapshot.player_id = state.my_player_id
      ids == DOMAIN state.visible_entities \cup {snapshot.entity_id}
  IN  [state EXCEPT
         !.my_entity_id = IF is_local THEN Some(snapshot.entity_id) ELSE @,
         !.visible_entities = [id \in ids |-> IF id = snapshot.entity_id
                                              THEN ClientEntity(snapshot)
                                              ELSE state.visible_entities[id]]]

\* The loop of EntitiesEntered over its snapshots. The snapshots carry distinct
\* ids, so only my_entity_id depends on their order: it ends as the last local
\* snapshot spawned, and any local snapshot can be the last.
spawn_all(snapshots, state) ==
  LET ids == DOMAIN state.visible_entities \cup {sn.entity_id : sn \in snapshots}
      of(id) == CHOOSE sn \in snapshots : sn.entity_id = id
      local == {sn \in snapshots : sn.player_id = state.my_player_id}
      spawned == [state EXCEPT
                    !.visible_entities =
                       [id \in ids |-> IF \E sn \in snapshots : sn.entity_id = id
                                       THEN ClientEntity(of(id))
                                       ELSE state.visible_entities[id]]]
  IN  IF local = {} THEN {spawned}
      ELSE {[spawned EXCEPT !.my_entity_id = Some(sn.entity_id)] : sn \in local}

\* The tree flag set by TreeChopped and TreeRespawned.
set_chopped(state, tree_entity_id, chopped) ==
  IF tree_entity_id \in DOMAIN state.visible_entities
       /\ state.visible_entities[tree_entity_id].tree # None
  THEN [state EXCEPT !.visible_entities[tree_entity_id].tree =
                        Some([@[1] EXCEPT !.is_chopped = chopped])]
  ELSE state

\* handle_server_message_reliable: the states it can leave.
handle_server_message_reliable(msg, state) ==
  CASE msg.type = "Welcome" -> {[state EXCEPT !.my_player_id = Some(msg.player_id)]}
    [] msg.type = "EntitiesEntered" -> spawn_all(msg.entities, state)
    [] msg.type = "EntitiesLeft" ->
         {[state EXCEPT !.visible_entities =
             [id \in DOMAIN state.visible_entities \ msg.entity_ids |->
                state.visible_entities[id]]]}
    [] msg.type = "PathFound" -> {[state EXCEPT !.confirmed_path = Some(msg.path)]}
    [] msg.type = "PathNotFound" -> {[state EXCEPT !.confirmed_path = None]}
    [] msg.type = "TreeChopped" -> {set_chopped(state, msg.tree_entity_id, TRUE)}
    [] msg.type = "TreeRespawned" -> {set_chopped(state, msg.tree_entity_id, FALSE)}
    [] msg.type = "ObstacleData" -> {[state EXCEPT !.obstacles = msg.obstacles]}
    [] msg.type = "InventoryUpdate" -> {[state EXCEPT !.inventory = msg.inventory]}
    [] msg.type = "SkillUpdate" ->
         {[state EXCEPT !.skills =
             [k \in DOMAIN state.skills \cup {msg.skill} |->
                IF k = msg.skill THEN [level |-> msg.level, experience |-> msg.experience]
                ELSE state.skills[k]]]}
    [] OTHER -> {state}

\* The update of a visible entity by a FullState or PositionOnly delta.
update_entity(state, delta, mine) ==
  IF delta.entity_id \notin DOMAIN state.visible_entities THEN state
  ELSE LET e == state.visible_entities[delta.entity_id]
           e1 == [e EXCEPT !.server_position = delta.tile_pos,
                           !.player_id = IF delta.delta_type = "FullState"
                                         THEN delta.player_id ELSE @]
           e2 == IF mine THEN [e1 EXCEPT !.tile_position = delta.tile_pos]
                 ELSE IF state.entity_interpolation
                 THEN [e1 EXCEPT !.position_buffer =
                         Append(@, [timestamp |-> now, position |-> delta.tile_pos])]
                 ELSE [e1 EXCEPT !.tile_position = delta.tile_pos]
       IN  [state EXCEPT
              !.visible_entities[delta.entity_id] = e2,
              !.my_entity_id = IF mine /\ delta.delta_type = "FullState"
                               THEN Some(delta.entity_id) ELSE @]

\* What follows the entity update when the delta is for the local player.
after_own_delta(state, delta) ==
  LET s1 == IF state.server_reconciliation
            THEN IF delta.last_processed_input # None
                 THEN reconcile_client_state(state, delta.entity_id,
                                             delta.last_processed_input[1])
                 ELSE state
            ELSE [state EXCEPT !.pending_inputs = << >>]
      s2 == [s1 EXCEPT !.pending_move = None]
  IN  IF delta.delta_type = "PositionOnly" /\ s2.confirmed_path # None
           /\ s2.confirmed_path[1] # << >>
           /\ s2.confirmed_path[1][Len(s2.confirmed_path[1])] = delta.tile_pos
      THEN [s2 EXCEPT !.confirmed_path = None]
      ELSE s2

\* Whether the handler takes the delta to be for the local player.
is_mine(state, delta) ==
  IF delta.delta_type = "FullState" THEN delta.player_id = state.my_player_id
  ELSE Some(delta.entity_id) = state.my_entity_id

\* One iteration of the loop of handle_server_message_unreliable.
apply_delta(state, delta) ==
  CASE delta.delta_type \in {"FullState", "PositionOnly"} ->
         LET mine == is_mine(state, delta)
             s1 == update_entity(state, delta, mine)
         IN  IF mine THEN after_own_delta(s1, delta) ELSE s1
    [] delta.delta_type = "Removed" ->
         [state EXCEPT !.visible_entities =
            [id \in DOMAIN state.visible_entities \ {delta.entity_id} |->
               state.visible_entities[id]]]
    [] OTHER -> state

RECURSIVE apply_deltas(_, _)
\* The loop over the deltas of a DeltaUpdate, in the given order.
apply_deltas(state, order) ==
  IF order = << >> THEN state
  ELSE apply_deltas(apply_delta(state, Head(order)), Tail(order))

\* The deltas whose handling reads or writes more than their own entity: those
\* for the local player. A DeltaUpdate carries at most one delta per entity, so
\* the other deltas commute with every delta and only the order of these matters.
OwnDeltas(state, deltas) ==
  {d \in deltas :
     \/ /\ d.delta_type = "FullState"
        /\ d.player_id = state.my_player_id
        /\ d.entity_id \in DOMAIN state.visible_entities \/ d.last_processed_input # None
     \/ /\ d.delta_type = "PositionOnly"
        /\ Some(d.entity_id) = state.my_entity_id}

RECURSIVE apply_commuting(_, _)
apply_commuting(state, deltas) ==
  IF deltas = {} THEN state
  ELSE LET d == CHOOSE d \in deltas : TRUE
       IN  apply_commuting(apply_delta(state, d), deltas \ {d})

\* handle_server_message_unreliable: the states it can leave.
handle_server_message_unreliable(msg, state) ==
  IF msg.type # "DeltaUpdate" THEN {state}
  ELSE LET own == OwnDeltas(state, msg.deltas)
       IN  {apply_deltas(apply_commuting(state, msg.deltas \ own), order) :
              order \in SetToSeqs(own)}

\* The keys of handle_tile_movement_input and the tile each aims at.
Keys == {"W", "S", "A", "D"}

target_pos(my_pos, key) ==
  CASE key = "W" -> <<my_pos[1], my_pos[2] + 1>>
    [] key = "S" -> <<my_pos[1], my_pos[2] - 1>>
    [] key = "A" -> <<my_pos[1] - 1, my_pos[2]>>
    [] key = "D" -> <<my_pos[1] + 1, my_pos[2]>>

\* Whether handle_tile_movement_input gets as far as sending for this key.
key_accepted(state, key) ==
  /\ state.my_player_id # None
  /\ state.my_entity_id # None
  /\ state.my_entity_id[1] \in DOMAIN state.visible_entities
  /\ target_pos(state.visible_entities[state.my_entity_id[1]].tile_position, key)
       \notin state.obstacles

\* A variant of handle_tile_movement_input that applies the move to the local
\* position whether or not prediction is enabled.
handle_tile_movement_input_always_predicts(state, key) ==
  LET my_entity_id == state.my_entity_id[1]
      pos == target_pos(state.visible_entities[my_entity_id].tile_position, key)
      action == Move(<<pos>>)
      input_sequence_number == state.input_sequence_number
  IN  [msg |-> [type |-> "QueueAction", action |-> action,
                input_sequence_number |-> input_sequence_number],
       state |-> [state EXCEPT
                    !.visible_entities[my_entity_id].tile_position = pos,
                    !.input_sequence_number = input_sequence_number + 1,
                    !.pending_inputs = Append(@, [input_sequence_number |->
                                                    input_sequence_number,
                                                  action |-> action]),
                    !.confirmed_path = None]]

\* handle_tile_movement_input for an accepted key: the message and the new state.
handle_tile_movement_input(state, key) ==
  LET my_entity_id == state.my_entity_id[1]
      pos == target_pos(state.visible_entities[my_entity_id].tile_position, key)
      action == Move(<<pos>>)
      input_sequence_number == state.input_sequence_number
      predicted == IF state.client_side_prediction
                   THEN [state EXCEPT !.visible_entities[my_entity_id].tile_position =
                                         apply_action_to_position(action, @)]
                   ELSE state
  IN  [msg |-> [type |-> "QueueAction", action |-> action,
                input_sequence_number |-> input_sequence_number],
       state |-> [predicted EXCEPT
                    !.input_sequence_number = input_sequence_number + 1,
                    !.pending_inputs = Append(@, [input_sequence_number |->
                                                    input_sequence_number,
                                                  action |-> action]),
                    !.confirmed_path = None]]

\* Whether a left click on the tile of entity hover_entity_id takes the branch
\* of handle_mouse_pathfinding that chops at once: an unchopped tree next to
\* the local player's entity (diagonals included).
click_chops(state, hover_entity_id) ==
  /\ hover_entity_id \in DOMAIN state.visible_entities
  /\ state.visible_entities[hover_entity_id].tree # None
  /\ ~state.visible_entities[hover_entity_id].tree[1].is_chopped
  /\ state.my_entity_id # None
  /\ state.my_entity_id[1] \in DOMAIN state.visible_entities
  /\ LET my_pos == state.visible_entities[state.my_entity_id[1]].tile_position
         tree_pos == state.visible_entities[hover_entity_id].tile_position
         dx == Abs(my_pos[1] - tree_pos[1])
         dy == Abs(my_pos[2] - tree_pos[2])
     IN  dx <= 1 /\ dy <= 1 /\ ~(dx = 0 /\ dy = 0)

\* handle_mouse_pathfinding on that branch: the messages and the new state.
handle_mouse_pathfinding(state, hover_entity_id) ==
  LET input_sequence_number == state.input_sequence_number
      action == ChopTree(hover_entity_id)
  IN  [msgs |-> << [type |-> "CancelAction"],
                   [type |-> "QueueAction", action |-> action,
                    input_sequence_number |-> input_sequence_number] >>,
       state |-> [state EXCEPT
                    !.input_sequence_number = input_sequence_number + 1,
                    !.pending_inputs = Append(@, [input_sequence_number |->
                                                    input_sequence_number,
                                                  action |-> action])]]

\* The F5, F6 and F7 keys of the debug interface.

handle_debug_input(state, key) ==
  CASE key = "F5" -> [state EXCEPT !.client_side_prediction = ~@]
    [] key = "F6" -> [state EXCEPT !.server_reconciliation = ~@]
    [] key = "F7" -> [state EXCEPT !.entity_interpolation = ~@]

(***************************************************************************)
(* The server alone: client messages are drawn from ServerInputs and what  *)
(* the server sends is kept in the outbox only.                            *)
(***************************************************************************)
ServerInputs ==
  { Move(<< <<0, -3>> >>), Move(<< <<1, 0>>, <<2, 0>> >>),
    ChopTree(6), Attack(1), UseItem(0), Interact(6) }

Init ==
  /\ players = << >>
  /\ entities = spawn_trees
  /\ next_entity_id = Len(tree_positions) + 1
  /\ server_tick = 0
  /\ last_states = << >>
  /\ client_views = << >>
  /\ connected = {}
  /\ c2s = [c \in Clients |-> << >>]
  /\ reliable = [c \in Clients |-> << >>]
  /\ unreliable = [c \in Clients |-> {}]
  /\ sent_reliable = NoMessages
  /\ sent_unreliable = NoMessages
  /\ client = [c \in Clients |-> ClientStateDefault]
  /\ ev = [op |-> "Init", client |-> 0, val |-> 0]
  /\ events = 0
  /\ membership = [c \in Clients |-> << >>]
  /\ newest = [c \in Clients |-> << >>]
  /\ dropped_tick = [c \in Clients |-> 0]
  /\ chopped_at = [id \in 1 .. Len(tree_positions) |-> 0]
  /\ now = 0

ServerOnly == UNCHANGED <<c2s, reliable, unreliable, client, membership, newest, dropped_tick, chopped_at, now>>

\* One more client event fed to the server.
ServerEvent == events < MaxEvents /\ events' = events + 1 /\ ServerOnly

ServerConnect == \E p \in Clients : Connect(p) /\ ServerEvent

ServerJoin == \E p \in Clients : HandleJoin(p) /\ ServerEvent

ServerQueueAction ==
  \E p \in Clients, action \in ServerInputs : HandleQueueAction(p, action) /\ ServerEvent

ServerCancelAction == \E p \in Clients : HandleCancelAction(p) /\ ServerEvent

ServerDisconnect == \E p \in Clients : Disconnect(p) /\ ServerEvent

ServerTick == Tick /\ ServerOnly /\ UNCHANGED events

NextServer ==
  \/ ServerConnect
  \/ ServerJoin
  \/ ServerQueueAction
  \/ ServerCancelAction
  \/ ServerDisconnect
  \/ ServerTick

SpecServer == Init /\ [][NextServer]_vars

(***************************************************************************)
(* The action queue (checked under SpecServer).                            *)
(***************************************************************************)
Queue(id) == entities[id].action_queue

\* The whole tick in which an action was dequeued.
StartTick(aip) == aip.started_at \div TICK_RATE

C8_CancelLeavesNothing ==
  [][/\ (ev'.op = "CancelAction" /\ ev'.client \in DOMAIN players) =>
          LET id == players[ev'.client].entity_id
          IN  /\ entities'[id].action_queue.current_action = None
              /\ entities'[id].action_queue.actions = << >>
              /\ entities'[id].tile_pos = entities[id].tile_pos
              /\ \A other \in DOMAIN entities \ {id} : entities'[other] = entities[other]
     /\ ev'.op = "Tick" =>
          \A id \in DOMAIN entities :
            /\ (Queue(id).current_action = None /\ Queue(id).actions = << >>
                  /\ entities[id].tree = None)
                 => entities'[id] = entities[id]
            /\ (entities[id].tree # None /\ ~entities[id].tree[1].is_chopped
                  /\ entities'[id].tree[1].is_chopped)
                 => \E e \in DOMAIN entities :
                      /\ InProgress(entities[e])
                      /\ CurrentAction(entities[e]).action = ChopTree(id)
    ]_vars

\* A CancelAction has just dropped an action in progress and at least one
\* queued action.
C8_Witness ==
  /\ ev.op = "CancelAction"
  /\ ev.client \in DOMAIN players
  /\ Len(ev.val) >= 2
  /\ Queue(players[ev.client].entity_id) = ActionQueueDefault

\* The durations in ticks that C9 states.
C9_Ticks(kind) ==
  CASE kind = "ChopTree" -> 5
    [] kind = "Attack" -> 4
    [] kind = "UseItem" -> 1
    [] kind = "Interact" -> 2

C10_MoveOneTilePerTick ==
  [][/\ ev'.op = "Tick" =>
          \A id \in DOMAIN entities :
            LET q == Queue(id)
                e2 == entities'[id]
            IN  /\ (q.current_action # None /\ q.current_action[1].action.kind = "Move"
                      /\ q.current_action[1].action.path # << >>) =>
                     LET aip == q.current_action[1]
                         n == Len(aip.action.path)
                         k == server_tick' - StartTick(aip)
                     IN  /\ aip.started_at = StartTick(aip) * TICK_RATE
                         /\ k >= 1 /\ k <= n
                         /\ k < n =>
                              /\ e2.action_queue.current_action # None
                              /\ e2.action_queue.current_action[1].action = aip.action
                              /\ e2.action_queue.current_action[1].current_path_index = k
                              /\ e2.tile_pos = aip.action.path[k + 1]
                         /\ k = n =>
                              /\ e2.action_queue.current_action = None
                              /\ e2.tile_pos = entities[id].tile_pos
                              /\ e2.tile_pos = aip.action.path[n]
                /\ (q.current_action = None /\ q.actions # << >>
                      /\ Head(q.actions).kind = "Move" /\ Head(q.actions).path # << >>) =>
                     /\ e2.tile_pos = Head(q.actions).path[1]
                     /\ e2.action_queue.current_action[1].current_path_index = 0
                     /\ e2.action_queue.current_action[1].started_at = server_tick' * TICK_RATE
     /\ ev'.op # "Tick" =>
          \A id \in DOMAIN entities \cap DOMAIN entities' :
            entities'[id].tile_pos = entities[id].tile_pos
    ]_vars

\* A tick has just put a moving entity on the second tile of its path.
C10_Witness ==
  /\ ev.op = "Tick"
  /\ \E id \in DOMAIN entities :
       /\ InProgress(entities[id])
       /\ CurrentAction(entities[id]).action.kind = "Move"
       /\ CurrentAction(entities[id]).current_path_index = 1
       /\ entities[id].tile_pos = CurrentAction(entities[id]).action.path[2]
       /\ StartTick(CurrentAction(entities[id])) = server_tick - 1

(***************************************************************************)
(* Server, channels and clients together. Each client runs the client      *)
(* program once: it connects, sends Join, and sends a Move per accepted     *)
(* key. The reliable channels keep order, and the messages one server step  *)
(* sends to a client travel together: the client's receive loop drains them *)
(* in one frame. A DeltaUpdate on the unreliable channel is delivered at    *)
(* any later time, in any order, or dropped.                                *)
(***************************************************************************)
\* What the server's step handed to the transport joins the channels.
Transmit ==
  /\ reliable' = [c \in Clients |->
                    IF c \notin connected' THEN << >>
                    ELSE IF sent_reliable'[c] = << >> THEN reliable[c]
                    ELSE Append(reliable[c], sent_reliable'[c])]
  /\ unreliable' = [c \in Clients |->
                      IF c \in connected'
                      THEN unreliable[c] \cup
                             {sent_unreliable'[c][i] : i \in 1 .. Len(sent_unreliable'[c])}
                      ELSE {}]

ClientStep == sent_reliable' = NoMessages /\ sent_unreliable' = NoMessages
                /\ UNCHANGED <<server_vars, connected>>

\* One more key, loss or disconnection.
NetEvent == events < MaxNetEvents /\ events' = events + 1

\* The view-membership history of a client after it receives a reliable message:
\* for each entity id, whether an EntitiesEntered naming it has been received
\* and whether the latest message naming it is an EntitiesEntered.
MembershipAfter(mem, msg) ==
  CASE msg.type = "EntitiesEntered" ->
         LET ids == {sn.entity_id : sn \in msg.entities}
         IN  [id \in DOMAIN mem \cup ids |->
                IF id \in ids THEN [entered |-> TRUE, present |-> TRUE] ELSE mem[id]]
    [] msg.type = "EntitiesLeft" ->
         [id \in DOMAIN mem \cup msg.entity_ids |->
            IF id \in msg.entity_ids
            THEN [entered |-> id \in DOMAIN mem /\ mem[id].entered, present |-> FALSE]
            ELSE mem[id]]
    [] OTHER -> mem

\* The newest delta applied to each entity: forgotten when the entity is
\* spawned anew or despawned.
NewestAfterReliable(nw, msg) ==
  CASE msg.type = "EntitiesEntered" ->
         [id \in DOMAIN nw \ {sn.entity_id : sn \in msg.entities} |-> nw[id]]
    [] msg.type = "EntitiesLeft" -> [id \in DOMAIN nw \ msg.entity_ids |-> nw[id]]
    [] OTHER -> nw

NewestAfterDelta(nw, msg, visible) ==
  LET applied == {d \in msg.deltas : d.entity_id \in visible}
      of(id) == CHOOSE d \in applied : d.entity_id = id
      ids == {d.entity_id : d \in applied}
  IN  [id \in DOMAIN nw \cup ids |->
         IF id \in ids /\ (id \notin DOMAIN nw \/ nw[id].tick < msg.tick)
         THEN [tick |-> msg.tick, tile_pos |-> of(id).tile_pos]
         ELSE nw[id]]

\* A client program starts: its connection is accepted and the first frame of
\* client_update_system that sees it sends the Join request, once. The clients
\* run the same program, so client 1 is taken to be the first to start.
ClientStart ==
  \E p \in Clients :
    /\ ~client[p].join_sent /\ client[p].my_player_id = None
    /\ \A q \in Clients : q < p => client[q].join_sent
    /\ Connect(p)
    /\ c2s' = [c2s EXCEPT ![p] = Append(@, [type |-> "Join"])]
    /\ client' = [client EXCEPT ![p].join_sent = TRUE]
    /\ UNCHANGED <<events, reliable, unreliable, membership, newest, dropped_tick, chopped_at, now>>

\* client_update_system: a movement key.
ClientKey ==
  \E p \in connected, key \in PressedKeys :
    /\ client[p].input_sequence_number < MaxKeys
    /\ key_accepted(client[p], key)
    /\ LET r == handle_tile_movement_input(client[p], key)
       IN  /\ c2s' = [c2s EXCEPT ![p] = Append(@, r.msg)]
           /\ client' = [client EXCEPT ![p] = r.state]
           /\ ev' = [op |-> "Key", client |-> p, val |-> r.msg]
    /\ ClientStep
    /\ NetEvent
    /\ UNCHANGED <<reliable, unreliable, membership, newest, dropped_tick, chopped_at, now>>

\* server_update_system: the next message of a client. The server's
\* ClientMessage has no input_sequence_number: QueueAction hands over the action.
ServerReceive ==
  \E p \in connected :
    /\ c2s[p] # << >>
    /\ c2s' = [c2s EXCEPT ![p] = Tail(@)]
    /\ LET msg == Head(c2s[p])
       IN  IF msg.type = "Join" THEN HandleJoin(p) ELSE HandleQueueAction(p, msg.action)
    /\ Transmit
    /\ UNCHANGED <<client, events, membership, newest, dropped_tick, chopped_at, now>>

NetTick ==
  /\ server_tick < MaxNetTick
  /\ Tick
  /\ Transmit
  /\ UNCHANGED <<c2s, client, events, membership, newest, dropped_tick, chopped_at, now>>

\* The connection of a client is lost: nothing in flight to or from it arrives.
NetDisconnect ==
  \E p \in connected :
    /\ Disconnect(p)
    /\ Transmit
    /\ c2s' = [c2s EXCEPT ![p] = << >>]
    /\ NetEvent
    /\ UNCHANGED <<client, membership, newest, dropped_tick, chopped_at, now>>

RECURSIVE receive_reliable(_, _)
\* The receive loop of client_update_system over the reliable messages that
\* have arrived: the states it can leave.
receive_reliable(msgs, states) ==
  IF msgs = << >> THEN states
  ELSE receive_reliable(Tail(msgs),
         UNION {handle_server_message_reliable(Head(msgs), state) : state \in states})

RECURSIVE MembershipAfterAll(_, _)
MembershipAfterAll(mem, msgs) ==
  IF msgs = << >> THEN mem
  ELSE MembershipAfterAll(MembershipAfter(mem, Head(msgs)), Tail(msgs))

RECURSIVE NewestAfterAll(_, _)
NewestAfterAll(nw, msgs) ==
  IF msgs = << >> THEN nw
  ELSE NewestAfterAll(NewestAfterReliable(nw, Head(msgs)), Tail(msgs))

\* client_update_system: the reliable messages of the next server step.
ClientRecvReliable ==
  \E p \in connected :
    /\ reliable[p] # << >>
    /\ LET msgs == Head(reliable[p])
       IN  /\ \E state \in receive_reliable(msgs, {client[p]}) :
                client' = [client EXCEPT ![p] = state]
           /\ membership' = [membership EXCEPT ![p] = MembershipAfterAll(@, msgs)]
           /\ newest' = [newest EXCEPT ![p] = NewestAfterAll(@, msgs)]
           /\ ev' = [op |-> "RecvReliable", client |-> p,
                     val |-> [i \in 1 .. Len(msgs) |-> msgs[i].type]]
    /\ reliable' = [reliable EXCEPT ![p] = Tail(@)]
    /\ ClientStep
    /\ UNCHANGED <<events, c2s, unreliable, dropped_tick, chopped_at, now>>

\* client_update_system: a DeltaUpdate that has arrived.
ClientRecvUnreliable ==
  \E p \in connected :
    \E msg \in unreliable[p] :
      /\ \E state \in handle_server_message_unreliable(msg, client[p]) :
           client' = [client EXCEPT ![p] = state]
      /\ newest' = [newest EXCEPT
                      ![p] = NewestAfterDelta(@, msg, DOMAIN client[p].visible_entities)]
      /\ unreliable' = [unreliable EXCEPT ![p] = @ \ {msg}]
      /\ ev' = [op |-> "RecvUnreliable", client |-> p, val |-> msg]
      /\ ClientStep
      /\ UNCHANGED <<events, c2s, reliable, membership, dropped_tick, chopped_at, now>>

\* The unreliable channel loses a DeltaUpdate.
DropUnreliable ==
  \E p \in connected :
    \E msg \in unreliable[p] :
      /\ unreliable' = [unreliable EXCEPT ![p] = @ \ {msg}]
      /\ dropped_tick' = [dropped_tick EXCEPT ![p] = IF msg.tick > @ THEN msg.tick ELSE @]
      /\ ev' = [op |-> "Drop", client |-> p, val |-> msg.tick]
      /\ ClientStep
      /\ NetEvent
      /\ UNCHANGED <<c2s, reliable, client, membership, newest, chopped_at, now>>

NextNet ==
  \/ ClientStart
  \/ ClientKey
  \/ ServerReceive
  \/ NetTick
  \/ NetDisconnect
  \/ ClientRecvReliable
  \/ ClientRecvUnreliable
  \/ DropUnreliable

SpecNet == Init /\ [][NextNet]_vars

(***************************************************************************)
(* View membership and deltas (checked under SpecNet).                     *)
(***************************************************************************)
RECURSIVE MembershipAfterBursts(_, _)
MembershipAfterBursts(mem, bursts) ==
  IF bursts = << >> THEN mem
  ELSE MembershipAfterBursts(MembershipAfterAll(mem, Head(bursts)), Tail(bursts))

\* The entities the server has announced to a client and not withdrawn: those
\* whose latest membership message, received or still on the reliable channel,
\* is an EntitiesEntered.
Announced(c) ==
  LET mem == MembershipAfterBursts(membership[c], reliable[c])
  IN  {id \in DOMAIN mem : mem[id].present}

\* The deltas the latest server step sent to a client.
SentDeltas(c) == UNION {sent_unreliable[c][i].deltas : i \in 1 .. Len(sent_unreliable[c])}

Entered(c, id) == id \in DOMAIN membership[c] /\ membership[c][id].entered

Left(c, id) == id \in DOMAIN membership[c] /\ ~membership[c][id].present

Visible(c) == DOMAIN client[c].visible_entities

\* C1 as stated: every PositionOnly delta a client receives for an id comes
\* after its receipt of an EntitiesEntered carrying that id.
C1_ReceivedAfterEntered ==
  ev.op = "RecvUnreliable" =>
    \A d \in ev.val.deltas :
      d.delta_type = "PositionOnly" => Entered(ev.client, d.entity_id)

\* C1 amended: every PositionOnly delta the server sends to a client for an id
\* is sent after an EntitiesEntered carrying that id (and no EntitiesLeft
\* since), and every PositionOnly delta a client applies, the id being in its
\* visible set, comes after its receipt of that EntitiesEntered.
C1_AppliedAfterEntered ==
  /\ ev.op = "Tick" =>
       \A c \in Clients : \A d \in SentDeltas(c) :
         d.delta_type = "PositionOnly" => d.entity_id \in Announced(c)
  /\ ev.op = "RecvUnreliable" =>
       \A d \in ev.val.deltas :
         (d.delta_type = "PositionOnly" /\ d.entity_id \in Visible(ev.client)) =>
           /\ Entered(ev.client, d.entity_id)
           /\ ~Left(ev.client, d.entity_id)

\* A client has just applied a PositionOnly delta to another player's entity.
C1_Witness ==
  /\ ev.op = "RecvUnreliable"
  /\ \E d \in ev.val.deltas :
       /\ d.delta_type = "PositionOnly"
       /\ d.entity_id \in Visible(ev.client)
       /\ Some(d.entity_id) # client[ev.client].my_entity_id
       /\ client[ev.client].visible_entities[d.entity_id].server_position = d.tile_pos

\* C2 as stated: no delta for an id arrives at a client after an EntitiesLeft
\* for it has arrived and before a new EntitiesEntered for it arrives.
C2_NoDeltaAfterLeft ==
  ev.op = "RecvUnreliable" =>
    \A d \in ev.val.deltas : ~Left(ev.client, d.entity_id)

\* C2 amended: the server sends a client no delta for an id after sending it an
\* EntitiesLeft for that id and before sending a new EntitiesEntered, and a
\* delta that arrives at a client after the EntitiesLeft and before a new
\* EntitiesEntered finds no entity and is not applied.
C2_NoDeltaAppliedAfterLeft ==
  /\ ev.op = "Tick" =>
       \A c \in Clients : \A d \in SentDeltas(c) : d.entity_id \in Announced(c)
  /\ \A c \in Clients : \A id \in Visible(c) : ~Left(c, id)

\* A delta has just arrived after the EntitiesLeft for its entity and found no
\* entity to apply to.
C2_Witness ==
  /\ ev.op = "RecvUnreliable"
  /\ \E d \in ev.val.deltas :
       /\ Left(ev.client, d.entity_id)
       /\ d.entity_id \notin Visible(ev.client)

(***************************************************************************)
(* Input acknowledgement, delta ordering and loss (checked under SpecNet). *)
(***************************************************************************)
\* The input sequence numbers of a client that the server has taken from the
\* transport and handled: those sent and no longer on the way.
AppliedInputs(c) ==
  {n \in 0 .. client[c].input_sequence_number - 1 :
     \A i \in 1 .. Len(c2s[c]) :
       c2s[c][i].type = "QueueAction" => c2s[c][i].input_sequence_number # n}

HighestApplied(c) ==
  IF AppliedInputs(c) = {} THEN None ELSE Some(Max(AppliedInputs(c)))

\* C3: each delta the server sends a client for the client's own entity carries
\* as last_processed_input the highest input sequence number of that client the
\* server has applied so far (hence a non-decreasing one).
C3_LastProcessedInput ==
  ev.op = "Tick" =>
    \A c \in DOMAIN players : \A d \in SentDeltas(c) :
      d.entity_id = players[c].entity_id => d.last_processed_input = HighestApplied(c)

\* C5: whatever the delivery order of the DeltaUpdates, the client's
\* server_position for an entity is the position carried by the highest-tick
\* delta it has applied to that entity.
C5_NewestDeltaWins ==
  \A c \in Clients : \A id \in DOMAIN newest[c] \cap Visible(c) :
    client[c].visible_entities[id].server_position = newest[c][id].tile_pos

\* The client has lost a DeltaUpdate, none later than it was lost, the server
\* has processed a later tick, and nothing is on the way to the client any
\* more; what it did receive was applied in tick order.
DropSettled(c) ==
  /\ c \in connected /\ c \in DOMAIN players
  /\ dropped_tick[c] > 0
  /\ server_tick > dropped_tick[c]
  /\ unreliable[c] = {}
  /\ reliable[c] = << >>
  /\ \A id \in DOMAIN newest[c] \cap Visible(c) :
       client[c].visible_entities[id].server_position = newest[c][id].tile_pos

\* C6: once the tick after a lost DeltaUpdate has been processed and
\* delivered, the client's server_position for every entity in its view equals
\* the server's tile_pos for that entity.
C6_DropRepaired ==
  \A c \in Clients :
    DropSettled(c) =>
      \A id \in client_views[c] \cap DOMAIN entities \cap Visible(c) :
        client[c].visible_entities[id].server_position = entities[id].tile_pos

(***************************************************************************)
(* One client alone: it is handed messages of the protocol it decodes,     *)
(* whatever server wrote them, and its user presses keys and clicks. What  *)
(* a step sends is kept in c2s until the next step.                        *)
(***************************************************************************)
MaxInputs == 3

MaxFed == 3

FedPositions == { <<0, 0>>, <<0, -3>> }

FedAcks == {None, Some(0), Some(1)}

\* The debug keys pressed: prediction and reconciliation.
DebugKeys == {"F5", "F6"}

FedReliable ==
  { [type |-> "Welcome", player_id |-> 1, spawn_position |-> <<0, 0>>],
    [type |-> "EntitiesEntered",
     entities |-> {EntitySnapshot(6, spawn_trees[6]),
                   [entity_id |-> 8, tile_position |-> <<0, 0>>,
                    player_id |-> Some(1), tree |-> None]}] }

FedDeltas ==
  { [entity_id |-> 8, delta_type |-> "FullState", tile_pos |-> pos,
     player_id |-> Some(1), last_processed_input |-> ack] :
      pos \in FedPositions, ack \in FedAcks }
  \cup
  { [entity_id |-> 8, delta_type |-> "PositionOnly", tile_pos |-> pos,
     player_id |-> None, last_processed_input |-> ack] :
      pos \in FedPositions, ack \in FedAcks }

\* Nothing but client 1 moves.
ClientOnly ==
  /\ sent_reliable' = NoMessages /\ sent_unreliable' = NoMessages
  /\ UNCHANGED <<server_vars, connected, reliable, unreliable, history_vars>>

FeedReliable ==
  \E msg \in FedReliable :
    /\ \E state \in handle_server_message_reliable(msg, client[1]) :
         client' = [client EXCEPT ![1] = state]
    /\ ev' = [op |-> "FeedReliable", client |-> 1, val |-> msg.type]
    /\ c2s' = [c \in Clients |-> << >>]
    /\ UNCHANGED events
    /\ ClientOnly

\* A DeltaUpdate with one delta; what the handler found is kept beside it.
FeedDelta ==
  \E delta \in FedDeltas :
    /\ events < MaxFed /\ events' = events + 1
    /\ \E state \in handle_server_message_unreliable(
                      [type |-> "DeltaUpdate", tick |-> 1, deltas |-> {delta}], client[1]) :
         client' = [client EXCEPT ![1] = state]
    /\ ev' = [op |-> "FeedDelta", client |-> 1,
              val |-> [delta |-> delta,
                       mine |-> is_mine(client[1], delta),
                       server_reconciliation |-> client[1].server_reconciliation,
                       pending_inputs |-> client[1].pending_inputs]]
    /\ c2s' = [c \in Clients |-> << >>]
    /\ ClientOnly

PressKey ==
  \E key \in PressedKeys :
    /\ client[1].input_sequence_number < MaxInputs
    /\ key_accepted(client[1], key)
    /\ LET r == handle_tile_movement_input(client[1], key)
       IN  /\ c2s' = [c2s EXCEPT ![1] = <<r.msg>>]
           /\ client' = [client EXCEPT ![1] = r.state]
    /\ ev' = [op |-> "Key", client |-> 1, val |-> key]
    /\ UNCHANGED events
    /\ ClientOnly

ClickTree ==
  \E id \in DOMAIN client[1].visible_entities :
    /\ client[1].input_sequence_number < MaxInputs
    /\ click_chops(client[1], id)
    /\ LET r == handle_mouse_pathfinding(client[1], id)
       IN  /\ c2s' = [c2s EXCEPT ![1] = r.msgs]
           /\ client' = [client EXCEPT ![1] = r.state]
    /\ ev' = [op |-> "Click", client |-> 1, val |-> id]
    /\ UNCHANGED events
    /\ ClientOnly

PressDebugKey ==
  \E key \in DebugKeys :
    /\ client' = [client EXCEPT ![1] = handle_debug_input(@, key)]
    /\ ev' = [op |-> "DebugKey", client |-> 1, val |-> key]
    /\ c2s' = [c \in Clients |-> << >>]
    /\ UNCHANGED events
    /\ ClientOnly

NextClient ==
  \/ FeedReliable
  \/ FeedDelta
  \/ PressKey
  \/ ClickTree
  \/ PressDebugKey

SpecClient == Init /\ [][NextClient]_vars

RECURSIVE Fold(_, _)
\* fold(apply, S, inputs): the position effects of the inputs, in order, on S.
Fold(S, inputs) ==
  IF inputs = << >> THEN S
  ELSE Fold(apply_action_to_position(inputs[1].action, S), Tail(inputs))

\* The inputs among the pending ones with a sequence number above n, in order.
Above(pending, n) ==
  LET keep == {i \in 1 .. Len(pending) : pending[i].input_sequence_number > n}
      nth(k) == CHOOSE i \in keep : Cardinality({j \in keep : j < i}) = k - 1
  IN  [k \in 1 .. Cardinality(keep) |-> pending[nth(k)]]

\* The client has just handled a delta it takes to be for its own entity, with
\* reconciliation enabled and a last_processed_input in the delta.
Reconciled ==
  /\ ev.op = "FeedDelta"
  /\ ev.val.mine
  /\ ev.val.server_reconciliation
  /\ ev.val.delta.last_processed_input # None

\* C4: after the client handles a delta for its own entity carrying position S
\* and last_processed_input n with reconciliation enabled, pending_inputs is
\* the previously pending inputs with sequence number above n in their order,
\* and the local tile_position is fold(apply, S, those inputs).
C4_Reconciliation ==
  Reconciled =>
    LET delta == ev.val.delta
        remaining == Above(ev.val.pending_inputs, delta.last_processed_input[1])
        state == client[ev.client]
    IN  /\ state.pending_inputs = remaining
        /\ delta.entity_id \in DOMAIN state.visible_entities =>
             state.visible_entities[delta.entity_id].tile_position =
               Fold(delta.tile_pos, remaining)

\* A reconciliation that dropped an input, kept a Move and a ChopTree, and left
\* the local position away from the server's.
C4_Witness ==
  /\ Reconciled
  /\ ev.val.delta.entity_id \in DOMAIN client[ev.client].visible_entities
  /\ Len(client[ev.client].pending_inputs) = 2
  /\ Len(ev.val.pending_inputs) = 3
  /\ {client[ev.client].pending_inputs[i].action.kind : i \in 1 .. 2} = {"Move", "ChopTree"}
  /\ client[ev.client].visible_entities[ev.val.delta.entity_id].tile_position
       # ev.val.delta.tile_pos

(***************************************************************************)
(* Interest views, disconnection and entity ids (checked under SpecServer).*)
(***************************************************************************)
\* The entities within Manhattan distance VIEW_DISTANCE of the player's entity.
Neighbourhood(ents, plrs, p) ==
  LET center == ents[plrs[p].entity_id].tile_pos
  IN  {id \in DOMAIN ents :
         Abs(center[1] - ents[id].tile_pos[1]) + Abs(center[2] - ents[id].tile_pos[2])
           <= VIEW_DISTANCE}

\* C16: after every server tick the stored view of every joined player is the
\* set of current entities within Manhattan distance VIEW_DISTANCE of the
\* player's own entity; it holds the own entity and no id that is gone.
C16_ViewIsNeighbourhood ==
  ev.op = "Tick" =>
    \A p \in DOMAIN players :
      /\ client_views[p] = Neighbourhood(entities, players, p)
      /\ players[p].entity_id \in client_views[p]
      /\ client_views[p] \subseteq DOMAIN entities

\* After a tick a player that has moved sees a tree at distance VIEW_DISTANCE
\* and another player, and does not see some tree further away.
C16_Witness ==
  /\ ev.op = "Tick"
  /\ \E p \in DOMAIN players :
       LET center == entities[players[p].entity_id].tile_pos
       IN  /\ center # <<0, 0>>
           /\ \E id \in client_views[p] :
                /\ entities[id].tree # None
                /\ distance_to(center, entities[id].tile_pos) = VIEW_DISTANCE
           /\ \E id \in client_views[p] :
                entities[id].player_id \notin {None, Some(p)}
           /\ \E id \in DOMAIN entities : id \notin client_views[p]

\* The positions in a stream of the messages of a type.
Positions(msgs, type) == {i \in 1 .. Len(msgs) : msgs[i].type = type}

\* C17: each view update stores now_visible and yields entered = now_visible \
\* previous and left = previous \ now_visible; the player is sent one
\* EntitiesEntered with a snapshot per entered id exactly when entered is not
\* empty and one EntitiesLeft with the left ids exactly when left is not empty.
\* Views are updated for every player by a tick and for the joiner by a Join,
\* which starts from an empty view.
C17_EnteredAndLeft ==
  [][\A p \in DOMAIN players' :
       (ev'.op = "Tick" \/ (ev'.op = "Join" /\ ev'.client = p)) =>
         LET previous == IF ev'.op = "Join" THEN {} ELSE client_views[p]
             now_visible == Neighbourhood(entities', players', p)
             entered == now_visible \ previous
             left == previous \ now_visible
             msgs == sent_reliable'[p]
         IN  /\ client_views'[p] = now_visible
             /\ entered \cap left = {}
             /\ Cardinality(Positions(msgs, "EntitiesEntered")) =
                  (IF entered = {} THEN 0 ELSE 1)
             /\ \A i \in Positions(msgs, "EntitiesEntered") :
                  msgs[i].entities =
                    {[entity_id |-> id, tile_position |-> entities'[id].tile_pos,
                      player_id |-> entities'[id].player_id,
                      tree |-> entities'[id].tree] : id \in entered}
             /\ Cardinality(Positions(msgs, "EntitiesLeft")) =
                  (IF left = {} THEN 0 ELSE 1)
             /\ \A i \in Positions(msgs, "EntitiesLeft") : msgs[i].entity_ids = left
    ]_vars

\* A tick has just sent a player both an EntitiesEntered and an EntitiesLeft.
C17_Witness ==
  /\ ev.op = "Tick"
  /\ \E p \in DOMAIN players :
       /\ Positions(sent_reliable[p], "EntitiesEntered") # {}
       /\ Positions(sent_reliable[p], "EntitiesLeft") # {}

\* C18: the disconnection pass that reaps a joined player leaves no players
\* entry for it, no entity of that player, no view of it, no last state of its
\* entity, and has broadcast an EntitiesLeft naming its entity id to every
\* client still connected; no step ever removes a tree entity.
C18_DisconnectRemovesAll ==
  [][/\ \A i \in DOMAIN entities : entities[i].tree # None => i \in DOMAIN entities'
     /\ (ev'.op = "Disconnect" /\ ev'.client \in DOMAIN players) =>
          LET p == ev'.client
              id == players[p].entity_id
          IN  /\ p \notin DOMAIN players'
              /\ \A i \in DOMAIN entities' : entities'[i].player_id # Some(p)
              /\ p \notin DOMAIN client_views'
              /\ id \notin DOMAIN last_states'
              /\ \A c \in connected' :
                   \E k \in Positions(sent_reliable'[c], "EntitiesLeft") :
                     id \in sent_reliable'[c][k].entity_ids
    ]_vars

\* C19: next_entity_id never decreases, every id in the entities map is below
\* it, an entity that appears takes an id that is at least the counter before
\* the step (so no id issued earlier, to a tree at setup or to a player since
\* removed, is issued again), and an id keeps its entity while it is present.
C19_IdsNeverReused ==
  /\ [](\A id \in DOMAIN entities : id < next_entity_id)
  /\ [][/\ next_entity_id' >= next_entity_id
        /\ \A id \in DOMAIN entities' \ DOMAIN entities :
             /\ id >= next_entity_id
             /\ next_entity_id' > id
        /\ \A id \in DOMAIN entities' \cap DOMAIN entities :
             /\ entities'[id].player_id = entities[id].player_id
             /\ (entities'[id].tree = None) = (entities[id].tree = None)
       ]_vars

\* A player has just joined after an earlier player entity was removed: its id
\* is above the id of the removed one, which is absent.
C19_Witness ==
  /\ ev.op = "Join"
  /\ ev.val \in DOMAIN entities
  /\ \E id \in Len(tree_positions) + 1 .. ev.val - 1 : id \notin DOMAIN entities

(***************************************************************************)
(* The server over a longer run, for woodcutting: clients connect and join *)
(* in order up to tick MaxJoinTick, joined players send QueueAction        *)
(* messages drawn from WoodInputs and CancelAction, and the server ticks   *)
(* long enough for a chopped tree to respawn.  chopped_at records the tick *)
(* of each tree's latest chop.                                             *)
(***************************************************************************)
MaxWoodTick == 15
MaxWoodEvents == 3
MaxJoinTick == 0

\* Tree 6 is a Normal tree, tree 3 an Oak; id 9 is a missing entity until a
\* second player joins and a player entity afterwards; (0,-4) is tree 6's tile.
WoodInputs == {ChopTree(6), ChopTree(3), ChopTree(9), Move(<< <<0, -4>> >>)}

WoodOnly == UNCHANGED <<c2s, reliable, unreliable, client, membership, newest, dropped_tick>>

WoodEvent == events < MaxWoodEvents /\ events' = events + 1 /\ WoodOnly /\ UNCHANGED <<chopped_at, now>>

\* The trees named by the TreeChopped messages of an outbox.
ChoppedIn(out) ==
  UNION {{out[c][k].tree_entity_id : k \in Positions(out[c], "TreeChopped")} : c \in Clients}

WoodConnect ==
  \E p \in Clients :
    /\ \A q \in Clients : q < p => q \in DOMAIN players
    /\ Connect(p) /\ WoodOnly /\ UNCHANGED <<events, chopped_at, now>>

WoodJoin ==
  \E p \in Clients :
    /\ p \notin DOMAIN players
    /\ server_tick <= MaxJoinTick
    /\ HandleJoin(p) /\ WoodOnly /\ UNCHANGED <<events, chopped_at, now>>

WoodQueueAction ==
  \E p \in DOMAIN players, action \in WoodInputs : HandleQueueAction(p, action) /\ WoodEvent

WoodCancelAction == \E p \in DOMAIN players : HandleCancelAction(p) /\ WoodEvent

WoodTick ==
  /\ TickTo(MaxWoodTick)
  /\ chopped_at' = [id \in DOMAIN chopped_at |->
                      IF id \in ChoppedIn(sent_reliable') THEN server_tick' ELSE chopped_at[id]]
  /\ UNCHANGED now
  /\ WoodOnly /\ UNCHANGED events

NextWood ==
  \/ WoodConnect
  \/ WoodJoin
  \/ WoodQueueAction
  \/ WoodCancelAction
  \/ WoodTick

SpecWood == Init /\ [][NextWood]_vars

\* The ids of the tree entities.
Trees == 1 .. Len(tree_positions)

\* A ChopTree of tree_entity_id by player entity e fails validation: the target
\* is missing or not a tree, the tree is chopped, the Woodcutting level is below
\* the tree's level_required, or the inventory holds no axe.
ChopFails(e, tree_entity_id) ==
  \/ tree_entity_id \notin DOMAIN entities
  \/ entities[tree_entity_id].tree = None
  \/ entities[tree_entity_id].tree[1].is_chopped
  \/ e.skills[1].Woodcutting.level
       < TreeDefinition(entities[tree_entity_id].tree[1].tree_type).level_required
  \/ ~has_any_axe(e.inventory[1])

\* C11: a QueueAction{ChopTree} of a joined player whose validation fails
\* changes no entity (queue, in-progress slot and tree are as before), sends no
\* ActionQueued, and sends the player an error message on the reliable channel.
C11_FailedChopRejected ==
  [][(/\ ev'.op = "QueueAction"
      /\ ev'.val.kind = "ChopTree"
      /\ ev'.client \in DOMAIN players
      /\ ChopFails(entities[players[ev'.client].entity_id], ev'.val.arg)) =>
        /\ entities' = entities
        /\ Positions(sent_reliable'[ev'.client], "ActionQueued") = {}
        /\ sent_reliable'[ev'.client] # << >>
    ]_vars

\* The player entities whose ChopTree of tree t is due in the tick after this state.
DueOn(t) ==
  {id \in WoodcuttingCompletions(entities, (server_tick + 1) * TICK_RATE) :
     CurrentAction(entities[id]).action.arg = t}

\* C12: in every tick, the completions of ChopTree on a tree that is already
\* chopped yield nothing (no log, no XP, no TreeChopped, timer not reset), and
\* of the completions on a standing tree at most one yields logs and XP.
C12_OneYieldPerStanding ==
  [][ev'.op = "Tick" =>
       \A t \in Trees :
         LET paid == {id \in DueOn(t) :
                        \/ entities'[id].skills # entities[id].skills
                        \/ entities'[id].inventory # entities[id].inventory}
         IN  IF entities[t].tree[1].is_chopped
             THEN paid = {} /\ t \notin ChoppedIn(sent_reliable')
             ELSE Cardinality(paid) <= 1
    ]_vars

\* The position in a stream of its only message of a type (0 when there is not
\* exactly one).
Only(msgs, type) ==
  IF Cardinality(Positions(msgs, type)) = 1
  THEN CHOOSE i \in Positions(msgs, type) : TRUE
  ELSE 0

\* C13: when the only ChopTree due on a standing tree completes, the acting
\* player's reliable stream of the tick holds, in this order, ItemAdded,
\* InventoryUpdate, ExperienceGained, SkillUpdate, LevelUp exactly when the
\* Woodcutting level rose, then TreeChopped, then ActionCompleted; and every
\* connected client is sent the TreeChopped.
C13_CompletionOrder ==
  [][ev'.op = "Tick" =>
       \A t \in Trees : \A id \in DueOn(t) :
         (~entities[t].tree[1].is_chopped /\ DueOn(t) = {id}) =>
           LET msgs == sent_reliable'[entities[id].player_id[1]]
               levelled == entities'[id].skills[1].Woodcutting.level
                             > entities[id].skills[1].Woodcutting.level
               chopped == {k \in Positions(msgs, "TreeChopped") : msgs[k].tree_entity_id = t}
           IN  /\ 0 < Only(msgs, "ItemAdded")
               /\ Only(msgs, "ItemAdded") < Only(msgs, "InventoryUpdate")
               /\ Only(msgs, "InventoryUpdate") < Only(msgs, "ExperienceGained")
               /\ Only(msgs, "ExperienceGained") < Only(msgs, "SkillUpdate")
               /\ Cardinality(Positions(msgs, "LevelUp")) = (IF levelled THEN 1 ELSE 0)
               /\ levelled => Only(msgs, "LevelUp") = Only(msgs, "SkillUpdate") + 1
               /\ Cardinality(chopped) = 1
               /\ \A k \in chopped :
                    /\ Only(msgs, "SkillUpdate") < k
                    /\ k < Only(msgs, "ActionCompleted")
               /\ \A c \in connected :
                    \E k \in Positions(sent_reliable'[c], "TreeChopped") :
                      sent_reliable'[c][k].tree_entity_id = t
    ]_vars

\* C15: a tree that is chopped when a tick begins and is not chopped again in
\* it stays chopped while the simulated time since the tick of its chop is below
\* its type's respawn_time, and in the first tick in which that time reaches
\* respawn_time it is un-chopped, its timer is 0 and every connected client is
\* sent exactly one TreeRespawned naming it.
C15_RespawnAfterRespawnTime ==
  [][ev'.op = "Tick" =>
       \A t \in Trees :
         (entities[t].tree[1].is_chopped /\ t \notin ChoppedIn(sent_reliable')) =>
           LET elapsed == (server_tick' - chopped_at[t]) * TICK_RATE
               announced(c) == {k \in Positions(sent_reliable'[c], "TreeRespawned") :
                                  sent_reliable'[c][k].tree_entity_id = t}
           IN  IF elapsed >= TreeDefinition(entities[t].tree[1].tree_type).respawn_time
               THEN /\ ~entities'[t].tree[1].is_chopped
                    /\ entities'[t].tree[1].respawn_timer = 0
                    /\ \A c \in connected : Cardinality(announced(c)) = 1
               ELSE /\ entities'[t].tree[1].is_chopped
                    /\ \A c \in connected : announced(c) = {}
    ]_vars

\* C20: no player entity stands on a tile of the pathfinder's obstacle set.
C20_PlayersOffObstacles ==
  \A id \in DOMAIN entities :
    entities[id].player_id # None => entities[id].tile_pos \notin ServerObstacles

(***************************************************************************)
(* handle_woodcutting_completion alone.  Init draws its inputs: player 1   *)
(* (entity 8) has a ChopTree in progress that is due in the current tick,  *)
(* on a tree its Woodcutting level allows, with an inventory and an        *)
(* experience drawn from the sets below; the one action applies the        *)
(* function.  A full inventory cannot come about through the server's own  *)
(* handlers (the only items they add are stackable logs), so the function  *)
(* is fed it directly.                                                     *)
(***************************************************************************)
\* An inventory whose slots all hold one BronzeAxe.
FullOfAxes == [i \in 1 .. InventorySlots |-> Some([item_type |-> "BronzeAxe", quantity |-> 1])]

\* The inventory of a new player; one with a stack of Logs; a full one without
\* logs; a full one with a stack of Logs; one whose last slot is the only free one.
CompletionInventories ==
  { add_item(InventoryNew, "BronzeAxe", 1).slots,
    add_item(add_item(InventoryNew, "BronzeAxe", 1).slots, "Logs", 3).slots,
    FullOfAxes,
    [FullOfAxes EXCEPT ![2] = Some([item_type |-> "Logs", quantity |-> 3])],
    [FullOfAxes EXCEPT ![InventorySlots] = None] }

\* Woodcutting experience at levels 1, 15 and 30, away from and just below the
\* next level.
CompletionXP == {0, 70, 2657, 3000, 14739, 16300}

\* A Normal tree, an Oak and a Willow.
CompletionTrees == {6, 3, 5}

InitCompletion ==
  /\ \E inv \in CompletionInventories, xp \in CompletionXP, t \in CompletionTrees :
       /\ calculate_level(xp) >= TreeDefinition(tree_positions[t].tree_type).level_required
       /\ entities =
            [id \in 1 .. Len(tree_positions) + 1 |->
               IF id <= Len(tree_positions) THEN spawn_trees[id]
               ELSE [PlayerEntity(1) EXCEPT
                       !.inventory = Some(inv),
                       !.skills = Some([SkillsNew EXCEPT !.Woodcutting =
                                          [level |-> calculate_level(xp), experience |-> xp]]),
                       !.action_queue.current_action =
                          Some([action |-> ChopTree(t), started_at |-> TICK_RATE,
                                completion_time |-> TICK_RATE + ChopTreeDuration,
                                current_path_index |-> 0])]]
  /\ players = [q \in {1} |-> [entity_id |-> Len(tree_positions) + 1]]
  /\ next_entity_id = Len(tree_positions) + 2
  /\ server_tick = 6
  /\ last_states = << >>
  /\ client_views = [q \in {1} |-> Neighbourhood(entities, players, q)]
  /\ connected \in {{1}, {1, 2}}
  /\ c2s = [c \in Clients |-> << >>]
  /\ reliable = [c \in Clients |-> << >>]
  /\ unreliable = [c \in Clients |-> {}]
  /\ sent_reliable = NoMessages
  /\ sent_unreliable = NoMessages
  /\ client = [c \in Clients |-> ClientStateDefault]
  /\ ev = [op |-> "Init", client |-> 0, val |-> 0]
  /\ events = 0
  /\ membership = [c \in Clients |-> << >>]
  /\ newest = [c \in Clients |-> << >>]
  /\ dropped_tick = [c \in Clients |-> 0]
  /\ chopped_at = [id \in 1 .. Len(tree_positions) |-> 0]
  /\ now = 0

\* The first iteration of process_server_tick's loop over woodcutting_completions.
ApplyCompletion ==
  \E id \in WoodcuttingCompletions(entities, server_tick * TICK_RATE) :
    \E r \in {handle_woodcutting_completion(id, CurrentAction(entities[id]).action.arg,
                                            entities, NoMessages)} :
      /\ entities' = r.entities
      /\ sent_reliable' = r.out
      /\ sent_unreliable' = NoMessages
      /\ ev' = [op |-> "Completion", client |-> entities[id].player_id[1],
                val |-> [entity_id |-> id,
                         tree_entity_id |-> CurrentAction(entities[id]).action.arg]]
      /\ UNCHANGED <<players, next_entity_id, server_tick, last_states, client_views,
                     connected, c2s, reliable, unreliable, client, events, history_vars>>

SpecCompletion == InitCompletion /\ [][ApplyCompletion]_vars

\* The inventory has a stack of the item or an empty slot.
HasRoom(slots, item_type) ==
  \E i \in 1 .. Len(slots) : slots[i] = None \/ slots[i][1].item_type = item_type

\* C14: when a ChopTree completes and the player's inventory has neither a
\* stack of the tree's log nor an empty slot, the inventory is unchanged, no
\* ItemAdded and no InventoryUpdate is sent, the tree is marked chopped, the
\* in-progress slot is cleared, ActionCompleted is sent and the tree's
\* experience is added to Woodcutting.
C14_NoRoomStillCompletes ==
  [][ev'.op = "Completion" =>
       LET id == ev'.val.entity_id
           t == ev'.val.tree_entity_id
           tree_def == TreeDefinition(entities[t].tree[1].tree_type)
           msgs == sent_reliable'[ev'.client]
       IN  ~HasRoom(entities[id].inventory[1], tree_def.logs_given) =>
             /\ entities'[id].inventory = entities[id].inventory
             /\ Positions(msgs, "ItemAdded") = {}
             /\ Positions(msgs, "InventoryUpdate") = {}
             /\ entities'[t].tree[1].is_chopped
             /\ entities'[id].action_queue.current_action = None
             /\ Cardinality(Positions(msgs, "ActionCompleted")) = 1
             /\ entities'[id].skills[1].Woodcutting.experience =
                  entities[id].skills[1].Woodcutting.experience + tree_def.experience
             /\ \E k \in Positions(msgs, "ExperienceGained") :
                  msgs[k].amount = tree_def.experience
    ]_vars

\* A ChopTree of an Oak has completed for a player whose full inventory held a
\* stack of Logs but no OakLogs: nothing was added, and the experience took the
\* player to the next level.
C14_Witness ==
  /\ ev.op = "Completion"
  /\ entities[ev.val.tree_entity_id].tree[1].tree_type = "Oak"
  /\ entities[ev.val.entity_id].inventory =
       Some([FullOfAxes EXCEPT ![2] = Some([item_type |-> "Logs", quantity |-> 3])])
  /\ Positions(sent_reliable[ev.client], "ItemAdded") = {}
  /\ Positions(sent_reliable[ev.client], "LevelUp") # {}
  /\ entities[ev.val.entity_id].skills[1].Woodcutting.experience = 3037

(***************************************************************************)
(* Action priorities (checked under SpecWood).                             *)
(***************************************************************************)

\* ActionPriority: Weak = 0, Normal = 1, Strong = 2.
Weak == 0
Normal == 1
Strong == 2

\* GameAction::priority
priority(action) ==
  CASE action.kind = "Move" -> Normal
    [] action.kind = "Attack" -> Normal
    [] action.kind = "UseItem" -> Normal
    [] action.kind = "Interact" -> Strong
    [] action.kind = "ChopTree" -> Weak

\* ActionPriority::can_cancel
can_cancel(self, other) == self > other

\* ActionPriority::should_suspend
should_suspend(self, other) == self = Strong /\ other = Normal

\* C30: priority tiers are applied when an action is enqueued: when the server
\* accepts a QueueAction whose action has a higher priority than the player's
\* in-progress action, that in-progress action is no longer in progress after
\* the step (a Move enqueued over a ChopTree ends the chop), and when the new
\* action is Strong and the in-progress one Normal, the Normal action is kept
\* in the queue to resume later.
C30_PriorityTiers ==
  [][ \A p \in DOMAIN players :
        LET id == players[p].entity_id
        IN  (/\ ev'.op = "QueueAction" /\ ev'.client = p
             /\ id \in DOMAIN entities
             /\ Positions(sent_reliable'[p], "ActionQueued") # {}
             /\ entities[id].action_queue.current_action # None
             /\ can_cancel(priority(ev'.val),
                           priority(entities[id].action_queue.current_action[1].action)))
            => LET aip == entities[id].action_queue.current_action[1]
                   q == entities'[id].action_queue
               IN  /\ q.current_action # Some(aip)
                   /\ should_suspend(priority(ev'.val), priority(aip.action))
                        => \E i \in 1 .. Len(q.actions) : q.actions[i] = aip.action
    ]_vars

(***************************************************************************)
(* The Join handshake (checked under SpecServer).                          *)
(***************************************************************************)

SkillTypes == {"Woodcutting", "Fishing", "Mining", "Combat"}

\* C25: a Join sends the joining client exactly eight reliable messages, in
\* this order: Welcome with its player id and spawn (0,0); InventoryUpdate with
\* exactly one BronzeAxe; four SkillUpdates, one per skill, at level 1;
\* ObstacleData with the whole obstacle set (40 boundary tiles and 7 tree
\* tiles); EntitiesEntered with the player's own snapshot and every entity in
\* view. No client is sent an EntitiesEntered in a step unless it had joined
\* before the step or a Welcome precedes it in the same step.
C25_JoinHandshake ==
  [][ /\ ev'.op = "Join" =>
           LET p == ev'.client
               out == sent_reliable'[p]
           IN  /\ Len(out) = 8
               /\ out[1] = [type |-> "Welcome", player_id |-> p, spawn_position |-> <<0, 0>>]
               /\ out[2].type = "InventoryUpdate"
               /\ \E s \in 1 .. Len(out[2].inventory) :
                    /\ out[2].inventory[s] = Some([item_type |-> "BronzeAxe", quantity |-> 1])
                    /\ \A r \in 1 .. Len(out[2].inventory) : r # s => out[2].inventory[r] = None
               /\ \A i \in 3 .. 6 : out[i].type = "SkillUpdate" /\ out[i].level = 1
               /\ {out[i].skill : i \in 3 .. 6} = SkillTypes
               /\ out[7].type = "ObstacleData"
               /\ out[7].obstacles = ServerObstacles
               /\ Cardinality(out[7].obstacles) = 47
               /\ Cardinality(BoundaryWalls) = 40
               /\ Cardinality(out[7].obstacles \ BoundaryWalls) = 7
               /\ out[8].type = "EntitiesEntered"
               /\ EntitySnapshot(ev'.val, entities'[ev'.val]) \in out[8].entities
               /\ out[8].entities =
                    {EntitySnapshot(id, entities'[id]) : id \in Neighbourhood(entities', players', p)}
      /\ \A c \in Clients :
           \A k \in Positions(sent_reliable'[c], "EntitiesEntered") :
             \/ c \in DOMAIN players
             \/ \E j \in 1 .. k - 1 : sent_reliable'[c][j].type = "Welcome"
    ]_vars

\* A second player has just joined: its EntitiesEntered carries its own
\* snapshot, the first player's and the trees in view.
C25_Witness ==
  /\ ev.op = "Join"
  /\ Len(sent_reliable[ev.client]) = 8
  /\ sent_reliable[ev.client][1].type = "Welcome"
  /\ \E s \in sent_reliable[ev.client][8].entities :
       s.player_id # None /\ s.entity_id # ev.val
  /\ \E s \in sent_reliable[ev.client][8].entities : s.tree # None
  /\ \E id \in DOMAIN entities :
       EntitySnapshot(id, entities[id]) \notin sent_reliable[ev.client][8].entities

(***************************************************************************)
(* The pathfinder (shared/src/pathfinding.rs, shared/src/tile_system.rs).  *)
(* A path is a sequence of tiles; its first element is the code's p[0].    *)
(* The open set is kept as the sequence of pushed nodes in push order. The *)
(* heap pops a node of lowest f_cost and, among those, of lowest h_cost;   *)
(* which of several such nodes comes out is not fixed by PathNode's order, *)
(* and is a parameter here (TiePolicies).                                  *)
(***************************************************************************)

I32_MAX == 2147483647

\* TilePosition::neighbors
neighbors(pos) ==
  << <<pos[1] + 1, pos[2]>>, <<pos[1] - 1, pos[2]>>,
     <<pos[1], pos[2] + 1>>, <<pos[1], pos[2] - 1>> >>

\* TilePosition::neighbors_diagonal
neighbors_diagonal(pos) ==
  << <<pos[1] + 1, pos[2]>>, <<pos[1] - 1, pos[2]>>,
     <<pos[1], pos[2] + 1>>, <<pos[1], pos[2] - 1>>,
     <<pos[1] + 1, pos[2] + 1>>, <<pos[1] + 1, pos[2] - 1>>,
     <<pos[1] - 1, pos[2] + 1>>, <<pos[1] - 1, pos[2] - 1>> >>

\* A variant of is_walkable that takes every tile to be walkable.
is_walkable_anywhere(obstacles, pos) == TRUE

\* Pathfinder::is_walkable
is_walkable(obstacles, pos) == pos \notin obstacles

\* Pathfinder::heuristic
heuristic(a, b) == (Abs(a[1] - b[1]) + Abs(a[2] - b[2])) * 10

\* HashMap::insert
Insert(map, key, value) ==
  [k \in DOMAIN map \cup {key} |-> IF k = key THEN value ELSE map[k]]

\* g_score.get(pos).unwrap_or(&i32::MAX)
GScore(g_score, pos) == IF pos \in DOMAIN g_score THEN g_score[pos] ELSE I32_MAX

\* PathNode's Ord: a is greater than b (comes out of the heap before b).
PathNodeBefore(a, b) == a.f_cost < b.f_cost \/ (a.f_cost = b.f_cost /\ a.h_cost < b.h_cost)

TiePolicies == {"oldest", "newest"}

\* BinaryHeap::pop: the index in the open sequence of the node that comes out.
PopIndex(open_set, tie) ==
  LET best == {i \in 1 .. Len(open_set) :
                 \A j \in 1 .. Len(open_set) : ~PathNodeBefore(open_set[j], open_set[i])}
  IN  IF tie = "oldest" THEN CHOOSE i \in best : \A j \in best : i <= j
      ELSE CHOOSE i \in best : \A j \in best : j <= i

RemoveAt(seq, i) == SubSeq(seq, 1, i - 1) \o SubSeq(seq, i + 1, Len(seq))

RECURSIVE reconstruct_path_unreversed(_, _)
\* A variant of reconstruct_path that leaves out the final reverse.
reconstruct_path_unreversed(came_from, current) ==
  IF current \in DOMAIN came_from
  THEN <<current>> \o reconstruct_path_unreversed(came_from, came_from[current])
  ELSE <<current>>

RECURSIVE reconstruct_path(_, _)
\* Pathfinder::reconstruct_path
reconstruct_path(came_from, current) ==
  IF current \in DOMAIN came_from
  THEN Append(reconstruct_path(came_from, came_from[current]), current)
  ELSE <<current>>

\* A variant of the loop body that never steps away from the goal: a
\* neighbour further from the goal than the current tile is skipped.
RelaxNeighborNoDetour(obstacles, goal, current, neighbor, s) ==
  IF ~is_walkable(obstacles, neighbor) \/ heuristic(neighbor, goal) > heuristic(current, goal)
  THEN s
  ELSE LET is_diagonal == Abs(current[1] - neighbor[1]) + Abs(current[2] - neighbor[2]) = 2
           move_cost == IF is_diagonal THEN 14 ELSE 10
           tentative_g_score == GScore(s.g_score, current) + move_cost
           h_cost == heuristic(neighbor, goal)
       IN  IF tentative_g_score < GScore(s.g_score, neighbor)
           THEN [open_set |-> Append(s.open_set,
                                [position |-> neighbor, g_cost |-> tentative_g_score,
                                 h_cost |-> h_cost, f_cost |-> tentative_g_score + h_cost]),
                 came_from |-> Insert(s.came_from, neighbor, current),
                 g_score |-> Insert(s.g_score, neighbor, tentative_g_score)]
           ELSE s

\* The body of the loop over the neighbours, for one neighbour; s holds
\* open_set, came_from and g_score.
RelaxNeighbor(obstacles, goal, current, neighbor, s) ==
  IF ~is_walkable(obstacles, neighbor) THEN s
  ELSE LET is_diagonal == Abs(current[1] - neighbor[1]) + Abs(current[2] - neighbor[2]) = 2
           move_cost == IF is_diagonal THEN 14 ELSE 10
           tentative_g_score == GScore(s.g_score, current) + move_cost
           h_cost == heuristic(neighbor, goal)
       IN  IF tentative_g_score < GScore(s.g_score, neighbor)
           THEN [open_set |-> Append(s.open_set,
                                [position |-> neighbor, g_cost |-> tentative_g_score,
                                 h_cost |-> h_cost, f_cost |-> tentative_g_score + h_cost]),
                 came_from |-> Insert(s.came_from, neighbor, current),
                 g_score |-> Insert(s.g_score, neighbor, tentative_g_score)]
           ELSE s

RECURSIVE RelaxNeighbors(_, _, _, _, _, _)
\* for neighbor in neighbors { ... }, from the i-th neighbour on.
RelaxNeighbors(obstacles, goal, current, ns, i, s) ==
  IF i > Len(ns) THEN s
  ELSE RelaxNeighbors(obstacles, goal, current, ns, i + 1,
                      RelaxNeighbor(obstacles, goal, current, ns[i], s))

RECURSIVE AStarLoop(_, _, _, _, _)
\* while let Some(current_node) = open_set.pop() { ... } None
AStarLoop(obstacles, allow_diagonal, goal, tie, s) ==
  IF s.open_set = << >> THEN None
  ELSE LET i == PopIndex(s.open_set, tie)
           current == s.open_set[i].position
       IN  IF current = goal THEN Some(reconstruct_path(s.came_from, current))
           ELSE AStarLoop(obstacles, allow_diagonal, goal, tie,
                  RelaxNeighbors(obstacles, goal, current,
                                 IF allow_diagonal THEN neighbors_diagonal(current)
                                 ELSE neighbors(current),
                                 1, [s EXCEPT !.open_set = RemoveAt(@, i)]))

\* Pathfinder::find_path_a_star: None, or Some(path).
find_path_a_star(obstacles, allow_diagonal, start, goal, tie) ==
  IF start = goal THEN Some(<<goal>>)
  ELSE IF ~is_walkable(obstacles, goal) THEN None
  ELSE AStarLoop(obstacles, allow_diagonal, goal, tie,
         [open_set |-> << [position |-> start, g_cost |-> 0,
                           h_cost |-> heuristic(start, goal),
                           f_cost |-> heuristic(start, goal)] >>,
          came_from |-> << >>,
          g_score |-> [k \in {start} |-> 0]])

(***************************************************************************)
(* SpecPath: find_path_a_star on its own. The inputs are drawn in the      *)
(* initial state: up to MaxPathObstacles obstacles among the tiles within  *)
(* PathRadius of the origin, with or without a closed wall around them, a  *)
(* start among three of those tiles, and a goal among them, on the wall or *)
(* beyond it. Without the wall the grid is unbounded and the search of an  *)
(* unreachable walkable goal does not end, so those inputs are left out.   *)
(***************************************************************************)

PathRadius == 1
MaxPathObstacles == 3

PathTiles == {<<x, y>> : x \in -PathRadius .. PathRadius, y \in -PathRadius .. PathRadius}

\* The closed square wall around PathTiles.
PathWall ==
  {<<x, y>> : x \in -(PathRadius + 1) .. PathRadius + 1,
              y \in -(PathRadius + 1) .. PathRadius + 1} \ PathTiles

\* The tiles a path may use when there is no wall and at most
\* MaxPathObstacles obstacles.
PathWindow ==
  {<<x, y>> : x \in -(PathRadius + 2) .. PathRadius + 2,
              y \in -(PathRadius + 2) .. PathRadius + 2}

PathGoals == PathTiles \cup {<<PathRadius + 1, 0>>, <<PathRadius + 2, 0>>}

\* The centre, a corner and the middle of an edge.
PathStarts == {<<0, 0>>, <<-PathRadius, -PathRadius>>, <<-PathRadius, 0>>}

\* One legal neighbour step of the mode.
LegalStep(allow_diagonal, a, b) ==
  IF allow_diagonal
  THEN a # b /\ Abs(a[1] - b[1]) <= 1 /\ Abs(a[2] - b[2]) <= 1
  ELSE Abs(a[1] - b[1]) + Abs(a[2] - b[2]) = 1

RECURSIVE ReachableFrom(_, _, _)
\* The tiles of PathWindow that legal steps over non-obstacle tiles reach from
\* the tiles of S.
ReachableFrom(obstacles, allow_diagonal, S) ==
  LET more == {n \in PathWindow \ (S \cup obstacles) :
                 \E s \in S : LegalStep(allow_diagonal, s, n)}
  IN  IF more = {} THEN S ELSE ReachableFrom(obstacles, allow_diagonal, S \cup more)

PathInputs ==
  {[obstacles |-> inner \cup (IF walled THEN PathWall ELSE {}), walled |-> walled,
    allow_diagonal |-> allow_diagonal, start |-> start, goal |-> goal, tie |-> tie] :
     inner \in {S \in SUBSET PathTiles : Cardinality(S) <= MaxPathObstacles},
     walled \in BOOLEAN, allow_diagonal \in BOOLEAN,
     start \in PathStarts, goal \in PathGoals, tie \in TiePolicies}

InitPath ==
  /\ players = << >>
  /\ entities = spawn_trees
  /\ next_entity_id = Len(tree_positions) + 1
  /\ server_tick = 0
  /\ last_states = << >>
  /\ client_views = << >>
  /\ connected = {}
  /\ c2s = [c \in Clients |-> << >>]
  /\ reliable = [c \in Clients |-> << >>]
  /\ unreliable = [c \in Clients |-> {}]
  /\ sent_reliable = NoMessages
  /\ sent_unreliable = NoMessages
  /\ client = [c \in Clients |-> ClientStateDefault]
  /\ \E in \in PathInputs :
       /\ \/ in.walled
          \/ in.goal \in in.obstacles
          \/ in.goal \in ReachableFrom(in.obstacles, in.allow_diagonal, {in.start})
       /\ ev = [op |-> "PathInput", client |-> 0, val |-> in]
  /\ events = 0
  /\ membership = [c \in Clients |-> << >>]
  /\ newest = [c \in Clients |-> << >>]
  /\ dropped_tick = [c \in Clients |-> 0]
  /\ chopped_at = [id \in 1 .. Len(tree_positions) |-> 0]
  /\ now = 0

\* A call of find_path_a_star with the drawn inputs.
ApplyFindPath ==
  /\ ev.op = "PathInput"
  /\ ev' = [op |-> "find_path_a_star", client |-> 0,
            val |-> [in |-> ev.val,
                     result |-> find_path_a_star(ev.val.obstacles, ev.val.allow_diagonal,
                                                 ev.val.start, ev.val.goal, ev.val.tie)]]
  /\ UNCHANGED <<players, entities, next_entity_id, server_tick, last_states, client_views,
                 connected, c2s, reliable, unreliable, sent_reliable, sent_unreliable,
                 client, events, history_vars>>

SpecPath == InitPath /\ [][ApplyFindPath]_vars

\* C21: for start # goal, a returned path begins at start, ends at goal, moves
\* by one legal neighbour step of the mode between consecutive tiles, and no
\* tile after the first is an obstacle.
C21_PathIsLegal ==
  (ev.op = "find_path_a_star" /\ ev.val.in.start # ev.val.in.goal /\ ev.val.result # None) =>
    LET in == ev.val.in
        p == ev.val.result[1]
    IN  /\ Len(p) >= 2
        /\ p[1] = in.start
        /\ p[Len(p)] = in.goal
        /\ \A i \in 1 .. Len(p) - 1 : LegalStep(in.allow_diagonal, p[i], p[i + 1])
        /\ \A i \in 2 .. Len(p) : p[i] \notin in.obstacles

\* A returned path, in 4-neighbour mode, that goes round obstacles: it is
\* longer than the distance between its ends.
C21_Witness ==
  /\ ev.op = "find_path_a_star" /\ ev.val.result # None
  /\ ~ev.val.in.allow_diagonal
  /\ Len(ev.val.result[1]) > distance_to(ev.val.in.start, ev.val.in.goal) + 1
  /\ ev.val.in.start \in ev.val.in.obstacles

\* C22: find_path is complete: when legal steps over non-obstacle tiles lead
\* from start to goal it returns a path; when the tiles reachable from start
\* are finitely many (the wall is closed) and goal is not among them it
\* returns unreachable.
C22_Complete ==
  ev.op = "find_path_a_star" =>
    LET in == ev.val.in
        reach == ReachableFrom(in.obstacles, in.allow_diagonal, {in.start})
    IN  /\ in.goal \in reach => ev.val.result # None
        /\ (in.walled /\ in.goal \notin reach) => ev.val.result = None

\* An unreachable walkable goal inside the wall, sealed off by obstacles in
\* 8-neighbour mode.
C22_Witness ==
  /\ ev.op = "find_path_a_star" /\ ev.val.result = None
  /\ ev.val.in.walled /\ ev.val.in.allow_diagonal
  /\ ev.val.in.goal \in PathTiles \ ev.val.in.obstacles

\* C23 as stated: find_path returns unreachable whenever goal is an obstacle
\* tile, for every start.
C23_ObstacleGoalUnreachable ==
  (ev.op = "find_path_a_star" /\ ev.val.in.goal \in ev.val.in.obstacles)
    => ev.val.result = None

\* C23, amended: find_path returns unreachable whenever goal is an obstacle
\* tile, for every start other than goal; for start = goal it returns [goal].
C23_ObstacleGoalUnreachableOtherStart ==
  (ev.op = "find_path_a_star" /\ ev.val.in.goal \in ev.val.in.obstacles)
    => IF ev.val.in.start = ev.val.in.goal
       THEN ev.val.result = Some(<<ev.val.in.goal>>)
       ELSE ev.val.result = None

\* The goal is an obstacle next to a walkable start.
C23_Witness ==
  /\ ev.op = "find_path_a_star" /\ ev.val.result = None
  /\ ev.val.in.goal \in ev.val.in.obstacles
  /\ ev.val.in.start \notin ev.val.in.obstacles
  /\ distance_to(ev.val.in.start, ev.val.in.goal) = 1

(***************************************************************************)
(* RequestPath (checked under SpecRequest: clients connect and join,      *)
(* request paths and the server ticks).                                    *)
(***************************************************************************)

\* state.pathfinder.find_path(start, goal): the server's pathfinder is built
\* with Pathfinder::new(false) and holds the boundary walls and the tree tiles.
find_path(start, goal, tie) == find_path_a_star(ServerObstacles, FALSE, start, goal, tie)

\* A variant of the RequestPath handler that reports the path and does not
\* enqueue the Move.
HandleRequestPathNoEnqueue(p, start, goal, tie) ==
  /\ p \in connected
  /\ p \in DOMAIN players /\ players[p].entity_id \in DOMAIN entities
       => Len(entities[players[p].entity_id].action_queue.actions) < MaxQueue
  /\ \E r \in {find_path(start, goal, tie)} :
       /\ IF r # None
          THEN sent_reliable' = send_message(NoMessages, p, [type |-> "PathFound", path |-> r[1]])
          ELSE sent_reliable' = send_message(NoMessages, p, [type |-> "PathNotFound"])
       /\ UNCHANGED entities
       /\ ev' = [op |-> "RequestPath", client |-> p,
                 val |-> [start |-> start, goal |-> goal, result |-> r]]
  /\ sent_unreliable' = NoMessages
  /\ UNCHANGED <<players, next_entity_id, server_tick, last_states, client_views, connected>>

\* handle_client_message, ClientMessage::RequestPath.
HandleRequestPath(p, start, goal, tie) ==
  /\ p \in connected
  /\ p \in DOMAIN players /\ players[p].entity_id \in DOMAIN entities
       => Len(entities[players[p].entity_id].action_queue.actions) < MaxQueue
  /\ \E r \in {find_path(start, goal, tie)} :
       /\ IF r # None
          THEN /\ sent_reliable' = send_message(NoMessages, p,
                                     [type |-> "PathFound", path |-> r[1]])
               /\ IF p \in DOMAIN players /\ players[p].entity_id \in DOMAIN entities
                  THEN entities' = [entities EXCEPT ![players[p].entity_id].action_queue =
                                      PushAction(@, Move(r[1]))]
                  ELSE UNCHANGED entities
          ELSE /\ sent_reliable' = send_message(NoMessages, p, [type |-> "PathNotFound"])
               /\ UNCHANGED entities
       /\ ev' = [op |-> "RequestPath", client |-> p,
                 val |-> [start |-> start, goal |-> goal, result |-> r]]
  /\ sent_unreliable' = NoMessages
  /\ UNCHANGED <<players, next_entity_id, server_tick, last_states, client_views, connected>>

MaxRequestTick == 3
MaxRequests == 2

\* (0,0) to (6,0): beyond the boundary wall. (0,0) to (2,0): a straight path.
\* (0,0) to (0,-4): the tile of tree 6. (-3,-4) to (-3,-2): round tree 1.
RequestPairs ==
  { << <<0, 0>>, <<6, 0>> >>, << <<0, 0>>, <<2, 0>> >>,
    << <<0, 0>>, <<0, -4>> >>, << <<-3, -4>>, <<-3, -2>> >> }

RequestPath ==
  \E p \in connected, pr \in RequestPairs, tie \in TiePolicies :
    /\ events < MaxRequests
    /\ HandleRequestPath(p, pr[1], pr[2], tie)
    /\ events' = events + 1
    /\ WoodOnly /\ UNCHANGED <<chopped_at, now>>

RequestTick == TickTo(MaxRequestTick) /\ WoodOnly /\ UNCHANGED <<events, chopped_at, now>>

NextRequest ==
  \/ WoodConnect
  \/ WoodJoin
  \/ RequestPath
  \/ RequestTick

SpecRequest == Init /\ [][NextRequest]_vars

\* C24: on RequestPath, when the pathfinder finds a path the requester is sent
\* PathFound with that path and, if it has joined, Move{path} is appended to
\* its queue and nothing else changes; when there is none (as from (0,0) to
\* (6,0), beyond the boundary wall) the requester is sent PathNotFound and no
\* entity's queue, in-progress action or position changes.
C24_RequestPath ==
  [][ ev'.op = "RequestPath" =>
        LET p == ev'.client
            r == ev'.val.result
        IN  /\ (ev'.val.start = <<0, 0>> /\ ev'.val.goal = <<6, 0>>) => r = None
            /\ r # None =>
                 /\ sent_reliable'[p] = << [type |-> "PathFound", path |-> r[1]] >>
                 /\ r[1][1] = ev'.val.start /\ r[1][Len(r[1])] = ev'.val.goal
                 /\ p \in DOMAIN players =>
                      /\ entities'[players[p].entity_id].action_queue.actions =
                           Append(entities[players[p].entity_id].action_queue.actions,
                                  Move(r[1]))
                      /\ entities' = [entities EXCEPT ![players[p].entity_id] =
                                        entities'[players[p].entity_id]]
                 /\ p \notin DOMAIN players => entities' = entities
            /\ r = None =>
                 /\ sent_reliable'[p] = << [type |-> "PathNotFound"] >>
                 /\ DOMAIN entities' = DOMAIN entities
                 /\ \A id \in DOMAIN entities :
                      /\ entities'[id].action_queue = entities[id].action_queue
                      /\ entities'[id].tile_pos = entities[id].tile_pos
    ]_vars

\* A joined player that has moved and has a Move in its queue was just told
\* that (6,0) cannot be reached.
C24_Witness ==
  /\ ev.op = "RequestPath" /\ ev.val.goal = <<6, 0>>
  /\ sent_reliable[ev.client] = << [type |-> "PathNotFound"] >>
  /\ ev.client \in DOMAIN players
  /\ entities[players[ev.client].entity_id].tile_pos # <<0, 0>>
  /\ entities[players[ev.client].entity_id].action_queue.current_action # None

(***************************************************************************)
(* SpecSkills: add_experience on its own. One player has joined; the       *)
(* amounts of a sequence of up to MaxSkillCalls calls on its Woodcutting   *)
(* skill are drawn from SkillXP. Where experience += xp overflows u32, the *)
(* call either wraps (a build without overflow checks) or panics, which    *)
(* ends the process and leaves no later state.                             *)
(***************************************************************************)

MaxSkillCalls == 4

\* A chop's 25 XP, the first level's 91, enough for the top level at once,
\* and amounts that carry the counter over 2^31 and 2^32.
SkillXP == {25, 91, 13034431, 2000000000, 2147483647}

SkillEntity == Len(tree_positions) + 1

InitSkills ==
  /\ players = [q \in {1} |-> [entity_id |-> SkillEntity]]
  /\ entities = [id \in 1 .. SkillEntity |->
                   IF id < SkillEntity THEN spawn_trees[id] ELSE PlayerEntity(1)]
  /\ next_entity_id = SkillEntity + 1
  /\ server_tick = 0
  /\ last_states = << >>
  /\ client_views = [q \in {1} |-> {}]
  /\ connected = {1}
  /\ c2s = [c \in Clients |-> << >>]
  /\ reliable = [c \in Clients |-> << >>]
  /\ unreliable = [c \in Clients |-> {}]
  /\ sent_reliable = NoMessages
  /\ sent_unreliable = NoMessages
  /\ client = [c \in Clients |-> ClientStateDefault]
  /\ ev = [op |-> "Init", client |-> 0, val |-> 0]
  /\ events = 0
  /\ membership = [c \in Clients |-> << >>]
  /\ newest = [c \in Clients |-> << >>]
  /\ dropped_tick = [c \in Clients |-> 0]
  /\ chopped_at = [id \in 1 .. Len(tree_positions) |-> 0]
  /\ now = 0

\* skills.add_experience(SkillType::Woodcutting, xp)
ApplyAddExperience ==
  \E xp \in SkillXP :
    /\ events < MaxSkillCalls
    /\ ev.op # "panic"
    /\ LET skills == entities[SkillEntity].skills[1]
           sum == AddU32(skills.Woodcutting.experience, xp)
       IN  \/ /\ entities' = [entities EXCEPT ![SkillEntity].skills =
                                Some(add_experience(skills, xp).skills)]
              /\ ev' = [op |-> "add_experience", client |-> 1,
                        val |-> [xp |-> xp, overflow |-> sum.overflow]]
           \/ /\ sum.overflow
              /\ UNCHANGED entities
              /\ ev' = [op |-> "panic", client |-> 1,
                        val |-> [xp |-> xp, overflow |-> TRUE]]
    /\ events' = events + 1
    /\ UNCHANGED <<players, next_entity_id, server_tick, last_states, client_views,
                   connected, c2s, reliable, unreliable, sent_reliable, sent_unreliable,
                   client, history_vars>>

SpecSkills == InitSkills /\ [][ApplyAddExperience]_vars

\* C26: whatever the sequence of add_experience calls on a skill, no call
\* lowers the skill's level, and the level is never greater than 99.
C26_LevelMonotoneBounded ==
  /\ [](entities[SkillEntity].skills[1].Woodcutting.level <= 99)
  /\ [][entities'[SkillEntity].skills[1].Woodcutting.level
          >= entities[SkillEntity].skills[1].Woodcutting.level]_vars

\* The experience counter has just wrapped round and now stands for a lower
\* level than the one the skill keeps.
C26_Witness ==
  /\ ev.op = "add_experience" /\ ev.val.overflow
  /\ entities[SkillEntity].skills[1].Woodcutting.level = 98
  /\ calculate_level(entities[SkillEntity].skills[1].Woodcutting.experience) < 98

(***************************************************************************)
(* The move-then-chop click and SpecInput: SpecClient with that click      *)
(* among the local inputs.                                                 *)
(***************************************************************************)

\* Whether a left click on the tile of entity hover_entity_id takes the branch
\* of handle_mouse_pathfinding that moves first: an unchopped tree that is not
\* next to the local player's entity.
click_moves_then_chops(state, hover_entity_id) ==
  /\ hover_entity_id \in DOMAIN state.visible_entities
  /\ state.visible_entities[hover_entity_id].tree # None
  /\ ~state.visible_entities[hover_entity_id].tree[1].is_chopped
  /\ state.my_entity_id # None
  /\ state.my_entity_id[1] \in DOMAIN state.visible_entities
  /\ LET my_pos == state.visible_entities[state.my_entity_id[1]].tile_position
         tree_pos == state.visible_entities[hover_entity_id].tile_position
         dx == Abs(my_pos[1] - tree_pos[1])
         dy == Abs(my_pos[2] - tree_pos[2])
     IN  ~(dx <= 1 /\ dy <= 1 /\ ~(dx = 0 /\ dy = 0))

\* The tiles around the tree in the order of the two loops over dx and dy.
AdjacentTiles(tree_pos) ==
  << <<tree_pos[1] - 1, tree_pos[2] - 1>>, <<tree_pos[1] - 1, tree_pos[2]>>,
     <<tree_pos[1] - 1, tree_pos[2] + 1>>, <<tree_pos[1], tree_pos[2] - 1>>,
     <<tree_pos[1], tree_pos[2] + 1>>, <<tree_pos[1] + 1, tree_pos[2] - 1>>,
     <<tree_pos[1] + 1, tree_pos[2]>>, <<tree_pos[1] + 1, tree_pos[2] + 1>> >>

\* best_adjacent: the first walkable tile around the tree among those nearest
\* to my_pos, or None.
best_adjacent(obstacles, tree_pos, my_pos) ==
  LET adj == AdjacentTiles(tree_pos)
      ok == {k \in 1 .. Len(adj) : is_walkable(obstacles, adj[k])}
      dist(k) == Abs(adj[k][1] - my_pos[1]) + Abs(adj[k][2] - my_pos[2])
  IN  IF ok = {} THEN None
      ELSE Some(adj[CHOOSE k \in ok :
                      \A j \in ok : dist(k) < dist(j) \/ (dist(k) = dist(j) /\ k <= j)])

\* The path of the move-then-chop branch: to the best adjacent tile, if there
\* is one and the client's pathfinder finds a path to it.
ChainPath(state, hover_entity_id, tie) ==
  LET my_pos == state.visible_entities[state.my_entity_id[1]].tile_position
      move_to == best_adjacent(state.obstacles,
                               state.visible_entities[hover_entity_id].tile_position, my_pos)
  IN  IF move_to = None THEN None
      ELSE find_path_a_star(state.obstacles, FALSE, my_pos, move_to[1], tie)

\* A variant of the move-then-chop branch that leaves input_sequence_number
\* as it was.
handle_mouse_move_then_chop_same_number(state, hover_entity_id, path) ==
  LET input_sequence_number == state.input_sequence_number
      my_entity_id == state.my_entity_id[1]
  IN  IF path = None
      THEN [msgs |-> << [type |-> "CancelAction"] >>, state |-> state]
      ELSE [msgs |-> << [type |-> "CancelAction"],
                        [type |-> "QueueActions",
                         actions |-> <<Move(path[1]), ChopTree(hover_entity_id)>>,
                         input_sequence_number |-> input_sequence_number] >>,
            state |-> [state EXCEPT
                         !.visible_entities[my_entity_id].tile_position =
                            IF state.client_side_prediction
                            THEN apply_action_to_position(Move(path[1]), @) ELSE @,
                         !.pending_inputs = Append(@, [input_sequence_number |->
                                                         input_sequence_number,
                                                       action |-> Move(path[1])]),
                         !.confirmed_path = Some(path[1])]]

\* handle_mouse_pathfinding on the move-then-chop branch, given what the
\* pathfinder returned: the messages and the new state.
handle_mouse_move_then_chop(state, hover_entity_id, path) ==
  LET input_sequence_number == state.input_sequence_number
      my_entity_id == state.my_entity_id[1]
  IN  IF path = None
      THEN [msgs |-> << [type |-> "CancelAction"] >>,
            state |-> [state EXCEPT !.input_sequence_number = input_sequence_number + 1]]
      ELSE [msgs |-> << [type |-> "CancelAction"],
                        [type |-> "QueueActions",
                         actions |-> <<Move(path[1]), ChopTree(hover_entity_id)>>,
                         input_sequence_number |-> input_sequence_number] >>,
            state |-> [state EXCEPT
                         !.input_sequence_number = input_sequence_number + 1,
                         !.visible_entities[my_entity_id].tile_position =
                            IF state.client_side_prediction
                            THEN apply_action_to_position(Move(path[1]), @) ELSE @,
                         !.pending_inputs = Append(@, [input_sequence_number |->
                                                         input_sequence_number,
                                                       action |-> Move(path[1])]),
                         !.confirmed_path = Some(path[1])]]

ClickFarTree ==
  \E id \in DOMAIN client[1].visible_entities, tie \in TiePolicies :
    /\ client[1].input_sequence_number < MaxInputs
    /\ click_moves_then_chops(client[1], id)
    /\ \E path \in {ChainPath(client[1], id, tie)} :
         \E r \in {handle_mouse_move_then_chop(client[1], id, path)} :
           /\ c2s' = [c2s EXCEPT ![1] = r.msgs]
           /\ client' = [client EXCEPT ![1] = r.state]
    /\ ev' = [op |-> "ClickFar", client |-> 1, val |-> id]
    /\ UNCHANGED events
    /\ ClientOnly

MaxInputFed == 2

\* A delta, while fewer than MaxInputFed have been fed.
InputDelta == events < MaxInputFed /\ FeedDelta

NextInput ==
  \/ FeedReliable
  \/ InputDelta
  \/ PressKey
  \/ ClickTree
  \/ ClickFarTree
  \/ PressDebugKey

SpecInput == Init /\ [][NextInput]_vars

\* The sequence numbers of the messages a local input has just sent.
SentNumbers(msgs) ==
  {msgs[i].input_sequence_number :
     i \in {k \in 1 .. Len(msgs) : msgs[k].type \in {"QueueAction", "QueueActions"}}}

\* C27: the sequence numbers assigned to successive local inputs (keyboard
\* moves, direct chops, move-then-chop chains) are strictly increasing: each
\* input is given the counter's value, the counter is then greater, and no
\* step lowers it; and pending_inputs is at all times in strictly increasing
\* order of sequence number, every number below the counter.
C27_SequenceNumbers ==
  /\ [](LET pending == client[1].pending_inputs
        IN  /\ \A i, j \in 1 .. Len(pending) :
                 i < j => pending[i].input_sequence_number < pending[j].input_sequence_number
            /\ \A i \in 1 .. Len(pending) :
                 pending[i].input_sequence_number < client[1].input_sequence_number)
  /\ [][ /\ client'[1].input_sequence_number >= client[1].input_sequence_number
         /\ ev'.op \in {"Key", "Click", "ClickFar"} =>
              /\ client'[1].input_sequence_number > client[1].input_sequence_number
              /\ SentNumbers(c2s'[1]) \subseteq {client[1].input_sequence_number}
              /\ Len(client'[1].pending_inputs) > Len(client[1].pending_inputs) =>
                   client'[1].pending_inputs[Len(client'[1].pending_inputs)]
                     .input_sequence_number = client[1].input_sequence_number
     ]_vars

\* A keyboard move, a move-then-chop chain and a direct chop are pending
\* together.
C27_Witness ==
  LET pending == client[1].pending_inputs
  IN  /\ Len(pending) = 3
      /\ \E i \in 1 .. 3 : pending[i].action.kind = "ChopTree"
      /\ \E i \in 1 .. 3 : pending[i].action.kind = "Move" /\ Len(pending[i].action.path) > 1
      /\ \E i \in 1 .. 3 : pending[i].action.kind = "Move" /\ Len(pending[i].action.path) = 1

(***************************************************************************)
(* Interpolation and display (client/src/systems.rs interpolate_entities,  *)
(* client/src/camera.rs update_entity_positions).                          *)
(***************************************************************************)

\* A variant of the loop body that computes the factor however close the two
\* timestamps are.
interpolate_entity_any_gap(e, render_timestamp) ==
  LET buffer == SelectSeq(e.position_buffer,
                          LAMBDA snapshot : snapshot.timestamp >= render_timestamp - SampleWindow)
      found == {i \in 1 .. Len(buffer) - 1 :
                  /\ buffer[i].timestamp <= render_timestamp
                  /\ render_timestamp <= buffer[i + 1].timestamp}
      i == CHOOSE k \in found : \A j \in found : k <= j
      t0 == buffer[i].timestamp
      t1 == buffer[i + 1].timestamp
  IN  [e EXCEPT
         !.position_buffer = buffer,
         !.interpolated_position =
            IF Len(buffer) < 2 THEN Some(e.server_position)
            ELSE IF found = {} THEN Some(e.server_position)
            ELSE IF 2 * (render_timestamp - t0) < t1 - t0 THEN Some(buffer[i].position)
            ELSE Some(buffer[i + 1].position)]

\* The body of the loop of interpolate_entities for one remote entity that is
\* not a tree. Between the two samples found, render_timestamp - t0 lies
\* between 0 and t1 - t0, so the clamp to [0, 1] changes nothing and the
\* factor is below 0.5 exactly when twice the numerator is below the
\* denominator; when the timestamps are no more than 0.0001 s apart the factor
\* is 0.0.
interpolate_entity(e, render_timestamp) ==
  LET buffer == SelectSeq(e.position_buffer,
                          LAMBDA snapshot : snapshot.timestamp >= render_timestamp - SampleWindow)
      found == {i \in 1 .. Len(buffer) - 1 :
                  /\ buffer[i].timestamp <= render_timestamp
                  /\ render_timestamp <= buffer[i + 1].timestamp}
      i == CHOOSE k \in found : \A j \in found : k <= j
      t0 == buffer[i].timestamp
      t1 == buffer[i + 1].timestamp
      below_half == IF Abs(t1 - t0) > TimestampEpsilon
                    THEN 2 * (render_timestamp - t0) < t1 - t0
                    ELSE TRUE
  IN  [e EXCEPT
         !.position_buffer = buffer,
         !.interpolated_position =
            IF Len(buffer) < 2 THEN Some(e.server_position)
            ELSE IF found = {} THEN Some(e.server_position)
            ELSE IF below_half THEN Some(buffer[i].position)
            ELSE Some(buffer[i + 1].position)]

\* interpolate_entities
interpolate_entities(state, current_time) ==
  IF ~state.entity_interpolation THEN state
  ELSE [state EXCEPT !.visible_entities =
          [id \in DOMAIN state.visible_entities |->
             IF Some(id) = state.my_entity_id \/ state.visible_entities[id].tree # None
             THEN state.visible_entities[id]
             ELSE interpolate_entity(state.visible_entities[id],
                                     current_time - state.interpolation_delay)]]

\* update_entity_positions: the tile the entity's transform is moved towards.
display_position(state, id) ==
  LET entity == state.visible_entities[id]
  IN  IF Some(id) = state.my_entity_id THEN entity.tile_position
      ELSE IF entity.interpolated_position # None THEN entity.interpolated_position[1]
      ELSE entity.tile_position

(***************************************************************************)
(* SpecInterp: client 1 has joined and sees its own entity 8, the entity 9 *)
(* of another player and tree 6. Deltas for entity 9 arrive, the clock     *)
(* advances, interpolate_entities runs and F7 switches interpolation;      *)
(* the systems of a frame run in no fixed order.                           *)
(***************************************************************************)

MaxInterpEvents == 5

InterpPositions == {<<1, 0>>, <<2, 0>>}

\* 0.0001 s, 0.05 s, 0.1 s and 1.1 s.
ClockSteps == {1, 500, 1000, 11000}

InterpSnapshots ==
  {EntitySnapshot(6, spawn_trees[6]),
   [entity_id |-> 8, tile_position |-> <<0, 0>>, player_id |-> Some(1), tree |-> None],
   [entity_id |-> 9, tile_position |-> <<1, 0>>, player_id |-> Some(2), tree |-> None]}

InitInterp ==
  /\ players = << >>
  /\ entities = spawn_trees
  /\ next_entity_id = Len(tree_positions) + 1
  /\ server_tick = 0
  /\ last_states = << >>
  /\ client_views = << >>
  /\ connected = {}
  /\ c2s = [c \in Clients |-> << >>]
  /\ reliable = [c \in Clients |-> << >>]
  /\ unreliable = [c \in Clients |-> {}]
  /\ sent_reliable = NoMessages
  /\ sent_unreliable = NoMessages
  /\ \E state \in spawn_all(InterpSnapshots,
                            [ClientStateDefault EXCEPT !.my_player_id = Some(1)]) :
       client = [c \in Clients |-> IF c = 1 THEN state ELSE ClientStateDefault]
  /\ ev = [op |-> "Init", client |-> 0, val |-> 0]
  /\ events = 0
  /\ membership = [c \in Clients |-> << >>]
  /\ newest = [c \in Clients |-> << >>]
  /\ dropped_tick = [c \in Clients |-> 0]
  /\ chopped_at = [id \in 1 .. Len(tree_positions) |-> 0]
  /\ now = 0

\* A DeltaUpdate with a PositionOnly delta for entity 9.
InterpDelta ==
  \E pos \in InterpPositions :
    /\ events < MaxInterpEvents /\ events' = events + 1
    /\ \E state \in handle_server_message_unreliable(
                      [type |-> "DeltaUpdate", tick |-> 1,
                       deltas |-> {[entity_id |-> 9, delta_type |-> "PositionOnly",
                                    tile_pos |-> pos, player_id |-> None,
                                    last_processed_input |-> None]}], client[1]) :
         client' = [client EXCEPT ![1] = state]
    /\ ev' = [op |-> "Delta", client |-> 1, val |-> pos]
    /\ c2s' = [c \in Clients |-> << >>]
    /\ ClientOnly

\* Time passes.
InterpClock ==
  \E dt \in ClockSteps :
    /\ events < MaxInterpEvents /\ events' = events + 1
    /\ now' = now + dt
    /\ ev' = [op |-> "Clock", client |-> 1, val |-> dt]
    /\ sent_reliable' = NoMessages /\ sent_unreliable' = NoMessages
    /\ c2s' = [c \in Clients |-> << >>]
    /\ UNCHANGED <<server_vars, connected, reliable, unreliable, client,
                   membership, newest, dropped_tick, chopped_at>>

\* interpolate_entities at the current time.
InterpFrame ==
  /\ client' = [client EXCEPT ![1] = interpolate_entities(@, now)]
  /\ ev' = [op |-> "Frame", client |-> 1, val |-> now - client[1].interpolation_delay]
  /\ c2s' = [c \in Clients |-> << >>]
  /\ UNCHANGED events
  /\ ClientOnly

\* F7.
InterpToggle ==
  /\ client' = [client EXCEPT ![1] = handle_debug_input(@, "F7")]
  /\ ev' = [op |-> "DebugKey", client |-> 1, val |-> "F7"]
  /\ c2s' = [c \in Clients |-> << >>]
  /\ UNCHANGED events
  /\ ClientOnly

NextInterp ==
  \/ InterpDelta
  \/ InterpClock
  \/ InterpFrame
  \/ InterpToggle

SpecInterp == InitInterp /\ [][NextInterp]_vars

\* The remote entities of client 1 that are not trees.
RemotePlayers ==
  {id \in DOMAIN client[1].visible_entities :
     Some(id) # client[1].my_entity_id /\ client[1].visible_entities[id].tree = None}

\* The samples of a buffer that are not older than render_time - 1 s.
Kept(buffer, render_time) ==
  SelectSeq(buffer, LAMBDA s : s.timestamp >= render_time - SampleWindow)

\* The places i of a buffer with buffer[i].t <= render_time <= buffer[i+1].t.
Surrounding(buffer, render_time) ==
  {i \in 1 .. Len(buffer) - 1 :
     buffer[i].timestamp <= render_time /\ render_time <= buffer[i + 1].timestamp}

\* C28 as stated: with interpolation enabled, a run of interpolate_entities
\* leaves a remote non-tree entity whose buffer, after eviction, holds
\* consecutive samples s0, s1 around render_time at s0.position if
\* (render_time - s0.t) / (s1.t - s0.t) < 0.5 and at s1.position otherwise
\* (where s1.t = s0.t the quotient is undefined and nothing is required); with
\* fewer than two samples left it is at server_position.
C28_SnapByFactor ==
  [][ (ev'.op = "Frame" /\ client[1].entity_interpolation) =>
        \A id \in RemotePlayers :
          LET e == client[1].visible_entities[id]
              after == client'[1].visible_entities[id]
              r == now - client[1].interpolation_delay
              buffer == Kept(e.position_buffer, r)
          IN  /\ after.position_buffer = buffer
              /\ Len(buffer) < 2 => after.interpolated_position = Some(e.server_position)
              /\ (Len(buffer) >= 2 /\ Surrounding(buffer, r) # {}) =>
                   \E i \in Surrounding(buffer, r) :
                     \/ buffer[i + 1].timestamp = buffer[i].timestamp
                     \/ after.interpolated_position =
                          Some(IF 2 * (r - buffer[i].timestamp)
                                    < buffer[i + 1].timestamp - buffer[i].timestamp
                               THEN buffer[i].position ELSE buffer[i + 1].position)
    ]_vars

\* C28, amended: the same, for the first pair s0, s1 of the buffer around
\* render_time, with s0.position also when s1.t - s0.t is no more than
\* 0.0001 s.
C28_SnapByFactorOrSmallGap ==
  [][ (ev'.op = "Frame" /\ client[1].entity_interpolation) =>
        \A id \in RemotePlayers :
          LET e == client[1].visible_entities[id]
              after == client'[1].visible_entities[id]
              r == now - client[1].interpolation_delay
              buffer == Kept(e.position_buffer, r)
          IN  /\ after.position_buffer = buffer
              /\ Len(buffer) < 2 => after.interpolated_position = Some(e.server_position)
              /\ (Len(buffer) >= 2 /\ Surrounding(buffer, r) # {}) =>
                   LET i == CHOOSE k \in Surrounding(buffer, r) :
                              \A j \in Surrounding(buffer, r) : k <= j
                       gap == buffer[i + 1].timestamp - buffer[i].timestamp
                   IN  after.interpolated_position =
                         Some(IF gap <= TimestampEpsilon
                                 \/ 2 * (r - buffer[i].timestamp) < gap
                              THEN buffer[i].position ELSE buffer[i + 1].position)
    ]_vars

\* interpolate_entities has just placed entity 9 at the later of two samples
\* with different positions around the render timestamp.
C28_Witness ==
  /\ ev.op = "Frame" /\ client[1].entity_interpolation
  /\ LET buffer == client[1].visible_entities[9].position_buffer
     IN  \E i \in Surrounding(buffer, ev.val) :
           /\ buffer[i].position # buffer[i + 1].position
           /\ buffer[i + 1].timestamp - buffer[i].timestamp > TimestampEpsilon
           /\ client[1].visible_entities[9].interpolated_position
                = Some(buffer[i + 1].position)

\* C29: whenever interpolation is disabled, the displayed position of every
\* remote entity is the latest server_position the client has for it.
C29_DisplayIsServerPosition ==
  ~client[1].entity_interpolation =>
    \A id \in DOMAIN client[1].visible_entities :
      Some(id) # client[1].my_entity_id =>
        display_position(client[1], id) = client[1].visible_entities[id].server_position

(***************************************************************************)
(* Delta replication (checked under SpecServer).                           *)
(***************************************************************************)
\* The entity has been sent: last_states holds it with a tick other than 0.
EverSent(id) == id \in DOMAIN last_states /\ last_states[id].last_sent_tick # 0

\* The entity as the tick leaves it differs from what was last sent.
ChangedInTick(id) == ~EverSent(id) \/ last_states[id].tile_pos # entities'[id].tile_pos

\* The deltas the step sends to client c.
DeltasTo(c) == UNION {sent_unreliable'[c][i].deltas : i \in 1 .. Len(sent_unreliable'[c])}

\* C31: in each tick a delta is built for an entity exactly when its tile_pos
\* differs from the last-sent one or it was never sent (the entity's
\* last-sent record then takes this tick and this position); the delta holds
\* the current tile_pos, is FullState on the first send and PositionOnly on
\* later ones, and goes to the connected players whose view holds the entity;
\* an unchanged entity yields no delta and a tick without changed entities
\* sends no DeltaUpdate.
C31_DeltaWhenChanged ==
  [][ev'.op = "Tick" =>
       /\ \A id \in DOMAIN entities' :
            /\ id \in DOMAIN last_states'
            /\ ChangedInTick(id) <=> last_states'[id].last_sent_tick = server_tick'
            /\ ChangedInTick(id) => last_states'[id].tile_pos = entities'[id].tile_pos
            /\ ~ChangedInTick(id) => last_states'[id] = last_states[id]
       /\ \A c \in Clients :
            /\ Len(sent_unreliable'[c]) <= 1
            /\ \A i \in 1 .. Len(sent_unreliable'[c]) :
                 /\ sent_unreliable'[c][i].type = "DeltaUpdate"
                 /\ sent_unreliable'[c][i].tick = server_tick'
                 /\ sent_unreliable'[c][i].deltas # {}
            /\ \A d \in DeltasTo(c) :
                 /\ d.entity_id \in DOMAIN entities'
                 /\ ChangedInTick(d.entity_id)
                 /\ d.tile_pos = entities'[d.entity_id].tile_pos
                 /\ d.delta_type = IF EverSent(d.entity_id) THEN "PositionOnly" ELSE "FullState"
                 /\ d.delta_type = "FullState" => d.player_id = entities'[d.entity_id].player_id
            /\ \A id \in DOMAIN entities' :
                 Cardinality({d \in DeltasTo(c) : d.entity_id = id})
                   = IF /\ ChangedInTick(id)
                        /\ c \in connected' \cap DOMAIN client_views'
                        /\ id \in client_views'[c]
                     THEN 1 ELSE 0
       /\ (\A id \in DOMAIN entities' : ~ChangedInTick(id)) =>
            \A c \in Clients : sent_unreliable'[c] = << >>
    ]_vars

\* A tick has just sent a player a PositionOnly delta of an entity that moved
\* and none of an entity in the player's view that did not.
C31_Witness ==
  /\ ev.op = "Tick"
  /\ \E c \in DOMAIN client_views :
       /\ Len(sent_unreliable[c]) = 1
       /\ \E d \in sent_unreliable[c][1].deltas :
            /\ d.delta_type = "PositionOnly"
            /\ d.tile_pos = entities[d.entity_id].tile_pos
       /\ \E id \in client_views[c] :
            /\ \A d \in sent_unreliable[c][1].deltas : d.entity_id # id
            /\ last_states[id].last_sent_tick < server_tick
            /\ last_states[id].tile_pos = entities[id].tile_pos

(***************************************************************************)
(* Local inputs and prediction (checked under SpecInput).                  *)
(***************************************************************************)
\* The QueueAction and QueueActions messages among msgs.
SentInputs(msgs) ==
  SelectSeq(msgs, LAMBDA msg : msg.type \in {"QueueAction", "QueueActions"})

\* The action a sent input is kept under in pending_inputs: the action of a
\* QueueAction, the first action of a QueueActions.
InputAction(msg) == IF msg.type = "QueueAction" THEN msg.action ELSE msg.actions[1]

\* C32: a local input (a movement key, a direct chop, a move-then-chop chain
\* for which a path was found) sends its action with the value
\* input_sequence_number had before the increment and appends exactly one
\* PendingInput with that number; with prediction enabled the local player's
\* tile_position becomes the first tile of a Move's path and is unchanged
\* for another action; with prediction disabled it is unchanged, and the
\* input is sent and appended all the same.
C32_LocalInput ==
  [][(ev'.op \in {"Key", "Click", "ClickFar"}) =>
       LET before == client[1]
           after == client'[1]
           sent == SentInputs(c2s'[1])
           me == before.my_entity_id[1]
       IN  /\ ev'.op \in {"Key", "Click"} => Len(sent) = 1
           /\ Len(sent) <= 1
           /\ Len(sent) = 1 =>
                /\ sent[1].input_sequence_number = before.input_sequence_number
                /\ after.input_sequence_number = before.input_sequence_number + 1
                /\ after.pending_inputs =
                     Append(before.pending_inputs,
                            [input_sequence_number |-> before.input_sequence_number,
                             action |-> InputAction(sent[1])])
                /\ after.visible_entities[me].tile_position =
                     IF /\ before.client_side_prediction
                        /\ InputAction(sent[1]).kind = "Move"
                     THEN InputAction(sent[1]).path[1]
                     ELSE before.visible_entities[me].tile_position
                /\ \A id \in DOMAIN before.visible_entities \ {me} :
                     after.visible_entities[id] = before.visible_entities[id]
    ]_vars

\* A key has just been pressed with prediction disabled: the move was sent
\* and is pending, and the local player has not moved.
C32_Witness ==
  /\ ev.op = "Key"
  /\ ~client[1].client_side_prediction
  /\ Len(SentInputs(c2s[1])) = 1
  /\ LET pending == client[1].pending_inputs
         me == client[1].my_entity_id[1]
     IN  /\ pending # << >>
         /\ pending[Len(pending)].action = SentInputs(c2s[1])[1].action
         /\ pending[Len(pending)].input_sequence_number + 1 = client[1].input_sequence_number
         /\ pending[Len(pending)].action.path[1] # client[1].visible_entities[me].tile_position

\* C33: every delta of a DeltaUpdate sent to a player in a tick is of an
\* entity in that player's stored view, that is, of an entity within
\* Manhattan distance 5 of the player's own tile as the tick's actions left
\* them; DeltaUpdates go to joined players only, and only a tick sends them.
C33_DeltasWithinView ==
  [][/\ ev'.op = "Tick" =>
          \A c \in Clients :
            sent_unreliable'[c] # << >> =>
              /\ c \in DOMAIN players'
              /\ c \in DOMAIN client_views'
              /\ players'[c].entity_id \in DOMAIN entities'
              /\ \A d \in DeltasTo(c) :
                   /\ d.entity_id \in client_views'[c]
                   /\ d.entity_id \in DOMAIN entities'
                   /\ distance_to(entities'[players'[c].entity_id].tile_pos,
                                  entities'[d.entity_id].tile_pos) <= VIEW_DISTANCE
                   /\ d.tile_pos = entities'[d.entity_id].tile_pos
     /\ ev'.op # "Tick" => \A c \in Clients : sent_unreliable'[c] = << >>
    ]_vars

\* A tick has just sent a player the delta of another player's entity in its
\* view, and no delta of an entity that was sent in this tick and is out of
\* its view.
C33_Witness ==
  /\ ev.op = "Tick"
  /\ \E c \in DOMAIN players :
       /\ Len(sent_unreliable[c]) = 1
       /\ \E d \in sent_unreliable[c][1].deltas :
            /\ d.entity_id # players[c].entity_id
            /\ entities[d.entity_id].player_id # None
            /\ d.entity_id \in client_views[c]
       /\ \E id \in DOMAIN entities \ client_views[c] :
            /\ last_states[id].last_sent_tick = server_tick
            /\ \A d \in sent_unreliable[c][1].deltas : d.entity_id # id

(***************************************************************************)
(* Idle entities and their queues (checked under SpecServer).              *)
(***************************************************************************)
\* C34: in each tick an entity that is idle with a non-empty queue starts
\* its next action, also when it became idle in that tick because its
\* previous action completed: after a tick no entity is idle with a
\* non-empty queue.
C34_NoIdleWithQueueAfterTick ==
  [][ev'.op = "Tick" =>
       \A id \in DOMAIN entities' :
         ~(/\ entities'[id].action_queue.current_action = None
           /\ entities'[id].action_queue.actions # << >>)
    ]_vars

(***************************************************************************)
(* Players and their entities (checked under SpecServer).                  *)
(***************************************************************************)
\* The entities of player p in the entities map.
EntitiesOf(p) == {id \in DOMAIN entities : entities[id].player_id = Some(p)}

\* C35: at all times every joined player has exactly one entity whose
\* player_id is the player, the one players records for it (so a second
\* Join of a joined client creates no further entity), and a player that is
\* not joined, one that disconnected included, has none.
C35_OneEntityPerPlayer ==
  \A p \in Clients :
    IF p \in DOMAIN players THEN EntitiesOf(p) = {players[p].entity_id}
    ELSE EntitiesOf(p) = {}

(***************************************************************************)
(* The order of EntitiesEntered and EntitiesLeft (checked under SpecNet).  *)
(***************************************************************************)
\* The ids a membership history holds as present: those whose latest message
\* is an EntitiesEntered.
PresentIn(mem) == {id \in DOMAIN mem : mem[id].present}

RECURSIVE Alternates(_, _)
\* Whether the messages, sent in this order after the history mem, name in an
\* EntitiesEntered only ids that are not present and in an EntitiesLeft only
\* ids that are.
Alternates(mem, msgs) ==
  IF msgs = << >> THEN TRUE
  ELSE /\ Head(msgs).type = "EntitiesEntered" =>
            {sn.entity_id : sn \in Head(msgs).entities} \cap PresentIn(mem) = {}
       /\ Head(msgs).type = "EntitiesLeft" => Head(msgs).entity_ids \subseteq PresentIn(mem)
       /\ Alternates(MembershipAfter(mem, Head(msgs)), Tail(msgs))

\* C36: for each client and entity id, the EntitiesEntered and EntitiesLeft
\* messages naming the id that the server sends to the client alternate,
\* beginning with EntitiesEntered: whatever a step sends continues the
\* alternation of what was sent before.
C36_EnteredLeftAlternate ==
  [][\A c \in Clients :
       Alternates(MembershipAfterBursts(membership[c], reliable[c]), sent_reliable'[c])
    ]_vars

(***************************************************************************)
(* ActionCompleted (checked under SpecServer).                             *)
(***************************************************************************)
\* The ActionCompleted messages naming entity id among msgs.
CompletedFor(msgs, id) ==
  {i \in 1 .. Len(msgs) : msgs[i].type = "ActionCompleted" /\ msgs[i].entity_id = id}

\* The entity's action in progress runs to completion in the tick that is
\* being taken: it is in progress before the tick and no longer after it.
CompletesInTick(id) ==
  /\ ev'.op = "Tick"
  /\ InProgress(entities[id])
  /\ id \in DOMAIN entities'
  /\ entities'[id].action_queue.current_action # entities[id].action_queue.current_action
  /\ \/ ~InProgress(entities'[id])
     \/ CurrentAction(entities'[id]).started_at # CurrentAction(entities[id]).started_at

\* C37: every action of a player's entity that runs to completion, whatever
\* its kind, has exactly one ActionCompleted naming the entity sent to the
\* player in the tick in which it completes, and no ActionCompleted is sent
\* otherwise.
C37_CompletionNotified ==
  [][\A id \in DOMAIN entities :
       entities[id].player_id # None =>
         \A c \in Clients :
           Cardinality(CompletedFor(sent_reliable'[c], id)) =
             IF CompletesInTick(id) /\ entities[id].player_id = Some(c) THEN 1 ELSE 0
    ]_vars

(***************************************************************************)
(* SpecDrain: one player whose queue is fed and never cancelled, under a   *)
(* server that keeps ticking. The player connects and joins, sends up to   *)
(* MaxDrainEvents QueueAction messages no later than tick MaxEnqueueTick,  *)
(* and the server ticks on; MaxDrainTick ticks are enough for the longest  *)
(* of those queues (two ChopTrees) to run out.                             *)
(***************************************************************************)
MaxDrainEvents == 2
MaxEnqueueTick == 1
MaxDrainTick == 24

DrainOnly ==
  UNCHANGED <<c2s, reliable, unreliable, client, membership, newest, dropped_tick,
              chopped_at, now>>

DrainConnect == Connect(1) /\ DrainOnly /\ UNCHANGED events

DrainJoin == 1 \notin DOMAIN players /\ HandleJoin(1) /\ DrainOnly /\ UNCHANGED events

DrainQueueAction ==
  \E action \in ServerInputs :
    /\ 1 \in DOMAIN players
    /\ server_tick <= MaxEnqueueTick
    /\ events < MaxDrainEvents
    /\ HandleQueueAction(1, action)
    /\ events' = events + 1
    /\ DrainOnly

\* server_update_system: the accumulator reaches a tick again and again.
DrainTick == TickTo(MaxDrainTick) /\ DrainOnly /\ UNCHANGED events

NextDrain ==
  \/ DrainConnect
  \/ DrainJoin
  \/ DrainQueueAction
  \/ DrainTick

\* The server's loop runs forever at TICK_RATE, so a tick that is due is
\* eventually taken.  Within NextDrain only DrainTick changes server_tick,
\* and DrainTick is enabled exactly when server_tick < MaxDrainTick, so
\* this weak fairness condition is the one on DrainTick.
TickDue == server_tick < MaxDrainTick /\ server_tick' = server_tick + 1

SpecDrain == Init /\ [][NextDrain]_vars /\ WF_server_tick(TickDue)

\* The entity of the player of SpecDrain.
DrainEntity == Len(tree_positions) + 1

\* The entity has an action in progress or waiting.
Busy(id) ==
  /\ id \in DOMAIN entities
  /\ (InProgress(entities[id]) \/ entities[id].action_queue.actions # << >>)

\* The entity has at least n actions waiting.
Waiting(id, n) == id \in DOMAIN entities /\ Len(entities[id].action_queue.actions) >= n

\* The entity has in progress the action that was started in tick t.
InProgressSince(id, t) ==
  /\ id \in DOMAIN entities
  /\ InProgress(entities[id])
  /\ CurrentAction(entities[id]).started_at = t * TICK_RATE

\* C38: while ticks keep being processed and the player neither cancels nor
\* disconnects, every waiting action is eventually started, every action in
\* progress eventually leaves the in-progress slot, and the queue runs out.
C38_QueueDrains ==
  /\ \A n \in 1 .. MaxQueue : Waiting(DrainEntity, n) ~> ~Waiting(DrainEntity, n)
  /\ \A t \in 1 .. MaxDrainTick :
       InProgressSince(DrainEntity, t) ~> ~InProgressSince(DrainEntity, t)
  /\ Busy(DrainEntity) ~> ~Busy(DrainEntity)

\* Two actions were queued and both have run: a tick before the last has
\* left the entity idle with nothing waiting, away from its spawn tile.
C38_Witness ==
  /\ ev.op = "Tick"
  /\ server_tick < MaxDrainTick
  /\ events = MaxDrainEvents
  /\ DrainEntity \in DOMAIN entities
  /\ ~Busy(DrainEntity)
  /\ entities[DrainEntity].tile_pos = <<2, 0>>

(***************************************************************************)
(* Where a chop takes effect (checked under SpecWood).                     *)
(***************************************************************************)
\* The adjacency of handle_mouse_pathfinding: within one tile, diagonals
\* included, not the same tile.
AdjacentTo(my_pos, tree_pos) ==
  LET dx == Abs(my_pos[1] - tree_pos[1])
      dy == Abs(my_pos[2] - tree_pos[2])
  IN  dx <= 1 /\ dy <= 1 /\ ~(dx = 0 /\ dy = 0)

\* The ChopTree of entity id completes and takes effect in the tick that is
\* being taken: it is due, its tree exists, and the tick reports the tree as
\* chopped.
ChopTakesEffect(id) ==
  /\ ev'.op = "Tick"
  /\ id \in WoodcuttingCompletions(entities, server_tick' * TICK_RATE)
  /\ CurrentAction(entities[id]).action.arg \in DOMAIN entities
  /\ entities[CurrentAction(entities[id]).action.arg].tree # None
  /\ entities'[CurrentAction(entities[id]).action.arg].tree[1].is_chopped

\* C39: a ChopTree takes effect only if, at its completion, the tile of the
\* acting player is adjacent to the tile of the tree.
C39_ChopOnlyWhenAdjacent ==
  [][\A id \in DOMAIN entities :
       ChopTakesEffect(id) =>
         AdjacentTo(entities[id].tile_pos,
                    entities[CurrentAction(entities[id]).action.arg].tile_pos)
    ]_vars

(***************************************************************************)
(* The cost of the returned path (checked under SpecPath).                 *)
(***************************************************************************)
\* move_cost of find_path_a_star for the step from a to b.
MoveCost(a, b) == IF Abs(a[1] - b[1]) + Abs(a[2] - b[2]) = 2 THEN 14 ELSE 10

RECURSIVE PathCost(_)
\* The sum of the move costs along a path.
PathCost(p) ==
  IF Len(p) <= 1 THEN 0
  ELSE MoveCost(p[1], p[2]) + PathCost(Tail(p))

\* The least of a non-empty set of integers.
Least(S) == CHOOSE x \in S : \A y \in S : x <= y

RECURSIVE LeastCosts(_, _, _, _)
\* The least cost at which legal steps over non-obstacle tiles of PathWindow
\* reach each tile from the tiles of dist, given the costs found so far;
\* frontier holds the tiles whose cost was lowered last.
LeastCosts(obstacles, allow_diagonal, dist, frontier) ==
  IF frontier = {} THEN dist
  ELSE LET near == {n \in PathWindow \ obstacles :
                      \E f \in frontier : LegalStep(allow_diagonal, f, n)}
           Through(n) == Least({dist[f] + MoveCost(f, n) :
                                  f \in {g \in frontier : LegalStep(allow_diagonal, g, n)}})
           lowered == {n \in near : n \notin DOMAIN dist \/ Through(n) < dist[n]}
       IN  LeastCosts(obstacles, allow_diagonal,
                      [t \in DOMAIN dist \cup lowered |->
                         IF t \in lowered THEN Through(t) ELSE dist[t]],
                      lowered)

\* The least cost of a path from start to goal; goal is reachable.
MinCost(obstacles, allow_diagonal, start, goal) ==
  LeastCosts(obstacles, allow_diagonal, [t \in {start} |-> 0], {start})[goal]

\* C40: a returned path has the least total cost (10 per cardinal step, 14
\* per diagonal step) among the paths of legal steps over non-obstacle tiles
\* from start to goal, in 4-neighbour mode and in 8-neighbour mode.
C40_MinimalCost ==
  (ev.op = "find_path_a_star" /\ ev.val.result # None) =>
    PathCost(ev.val.result[1]) =
      MinCost(ev.val.in.obstacles, ev.val.in.allow_diagonal, ev.val.in.start, ev.val.in.goal)

=============================================================================
